---- MODULE Spec2Model ----
(***************************************************************************)
(* A model of the raildata client (github.com/jtarrio/raildata):           *)
(*   - the credential/token store of raildataClient (client.go),           *)
(*   - the request executor MethodDefinition.Request/ParseResponse         *)
(*     (api/api.go),                                                       *)
(*   - the retry orchestrator request() (client.go),                       *)
(*   - the finders of stations and lines (find.go, codes.go).              *)
(* Callers are goroutines sharing one client.  The server is the           *)
(* environment: every HTTP exchange may end in any outcome.                *)
(* Spec is the client and its callers; SpecListeners adds the goroutines   *)
(* of the token update listeners; SpecParse applies ParseResponse to every *)
(* response of a bounded set; SpecFind searches the package's lists of     *)
(* stations and lines, and SpecFuzzy short lists of stations; SpecColor       *)
(* parses and renders HTML colors.                                         *)
(***************************************************************************)
EXTENDS Integers, Sequences, FiniteSets, TLC

\* ------------------------------------------------------------------ bounds
NumCallers == 2
MaxCalls == 2
MaxToken == 1
NumListeners == 2

Callers == 1..NumCallers
Tokens == 0..MaxToken
Free == 0
NoOutput == [Authenticated |-> "none", UserToken |-> 0]

VARIABLES
    credentials,            \* raildataClient.credentials # nil
    token,                  \* raildataClient.token
    tokenMutex,             \* raildataClient.tokenMutex: its holder, or Free
    tokenUpdateListeners,   \* len(raildataClient.tokenUpdateListeners)
    spawned,                \* the "go listener(new, old)" statements executed so far
    stores,                 \* the GetTokenResponses whose UserToken was written to token
    pc,                     \* where each caller is inside request()/refreshToken()
    tok,                    \* request()'s local variable token of each caller
    sent,                   \* tokens carried by the primary exchanges of the current call
    res1,                   \* result of the first primary exchange of the current call
    rerr,                   \* what refreshToken returned to the current call
    gets,                   \* getToken exchanges started by the current call
    gres,                   \* result of the current call's getToken exchange
    out,                    \* the GetTokenResponse decoded by the current call's refresh
    res2,                   \* result of the retried primary exchange of the current call
    ret,                    \* what request() returned
    requested,              \* the observed token values a getToken request was sent for
    calls,                  \* calls of public methods started so far
    ran,                    \* the spawned goroutines (indices of spawned) that began to run
    panicked,               \* a goroutine panicked: the process is gone
    saved,                  \* the token in the token file each listener maintains
    httpResponse,           \* the http.Response given to ParseResponse on its own
    parsed,                 \* what ParseResponse made of it
    finder,                 \* a finderImpl: how it was made, its code and its name
    result,                 \* what Search or SearchOrSynthesize returned
    colorSpec,              \* the string given to ParseHtmlColor
    color,                  \* what ParseHtmlColor returned: a Color and an error
    rendered,               \* what Html and RGB returned for that Color
    matchArgs,              \* the input and the candidate given to fuzzyMatch
    matchResult,            \* what fuzzyMatch returned for them
    catalog,                \* a finder's list and its maps byCode, byName and byAbbr
    finders,                \* the finderImpl values made from one another by WithCode/WithName
    got                     \* what GetToken returned to the listeners that call it

vars == <<credentials, token, tokenMutex, tokenUpdateListeners, spawned, stores, pc, tok,
          sent, res1, rerr, gets, gres, out, res2, ret, requested, calls,
          ran, panicked, saved, httpResponse, parsed, finder, result,
          colorSpec, color, rendered, matchArgs, matchResult, catalog, finders, got>>

\* The variables of the Color type, of fuzzyMatch and of a finder's values.
colorVars == <<colorSpec, color, rendered>>
matchVars == <<matchArgs, matchResult>>
frameVars == <<catalog, finders>>
pureVars == <<colorVars, matchVars, frameVars>>

\* ------------------------------------------------------- request executor
\* The methods of api.go that the model tells apart: the shape of their
\* response type decides what json.Unmarshal accepts.
Methods == {"isValidToken", "getStationList", "getToken"}
Shape(method) == IF method = "getStationList" THEN "array" ELSE "object"

InvalidTokenMessage == "Invalid token."
Messages == {InvalidTokenMessage, "invalid token.", "Invalid token", "some error message", ""}

\* Response bodies, classified by what io.ReadAll and the JSON decoders make of them:
\*   empty          zero bytes
\*   unreadable     io.ReadAll fails (connection lost, context cancelled or expired)
\*   garbage        bytes that are not JSON
\*   json           a document of the method's response type
\*   envelope       {"errorMessage": m}
\*   envelopeExtra  {"errorMessage": m, <another field>}
Body(kind, message) == [kind |-> kind, errorMessage |-> message]
PlainBodies == {Body(k, "") : k \in {"empty", "unreadable", "garbage", "json"}}
Bodies ==
    PlainBodies \cup {Body(k, m) : k \in {"envelope", "envelopeExtra"}, m \in Messages}

StatusCodes == {199, 200, 204, 299, 300, 401, 500}

\* The responses ParseResponse is applied to on its own.
Responses == [method : Methods, status : StatusCodes, body : Bodies]
NoResponse == [method |-> "none", status |-> 0, body |-> Body("empty", "")]

\* What client.Do can give back to a caller: no response at all (transport
\* failure, which includes a context cancelled or expired before the response
\* headers), or a response with a status and a body.
PrimaryOutcomes ==
    {[do |-> "error", method |-> "isValidToken", status |-> 0, body |-> Body("empty", "")]}
    \cup {[do |-> "response", method |-> "isValidToken", status |-> 200, body |-> Body(k, "")] :
             k \in {"empty", "unreadable", "json", "garbage"}}
    \cup {[do |-> "response", method |-> "isValidToken", status |-> 401, body |-> b] :
             b \in {Body("empty", ""), Body("unreadable", ""), Body("garbage", ""),
                    Body("envelope", InvalidTokenMessage),
                    Body("envelope", "some error message")}}

GetTokenOutcomes ==
    {[do |-> o.do, method |-> "getToken", status |-> o.status, body |-> o.body,
      Authenticated |-> "", UserToken |-> 0] :
        o \in {p \in PrimaryOutcomes : p.body.kind # "json"}}
    \cup {[do |-> "response", method |-> "getToken", status |-> 200, body |-> Body("json", ""),
           Authenticated |-> a, UserToken |-> t] :
             a \in {"True", "False"}, t \in Tokens}

\* The decoder without DisallowUnknownFields: other fields are ignored.
EnvelopeParses_UnknownFields(body) == body.kind \in {"envelope", "envelopeExtra"}

\* json.Decoder with DisallowUnknownFields into struct{ errorMessage }.
EnvelopeParses(body) == body.kind = "envelope"

\* parseErrorResponse with the comparison of the message made loosely.
parseErrorResponse_AnyTokenMessage(response) ==
    IF response.body.kind = "unreadable" THEN "StatusError"
    ELSE IF ~EnvelopeParses(response.body) THEN "StatusError"
    ELSE IF response.body.errorMessage \in {InvalidTokenMessage, "invalid token.", "Invalid token"}
      THEN "InvalidToken"
    ELSE "RailDataError"

\* parseErrorResponse: the error for a status outside [200,300).
parseErrorResponse(response) ==
    IF response.body.kind = "unreadable" THEN "StatusError"
    ELSE IF ~EnvelopeParses(response.body) THEN "StatusError"
    ELSE IF response.body.errorMessage = InvalidTokenMessage THEN "InvalidToken"
    ELSE "RailDataError"

\* json.Unmarshal into the method's response type: unknown fields of an object
\* are ignored, an object is no array.
Unmarshals(response) ==
    \/ response.body.kind = "json"
    \/ response.body.kind \in {"envelope", "envelopeExtra"} /\ Shape(response.method) = "object"

\* ParseResponse with the empty body handed to the decoder.
ParseResponse_NoEmptyCheck(response) ==
    IF response.status < 200 \/ response.status >= 300 THEN parseErrorResponse(response)
    ELSE IF response.body.kind = "unreadable" THEN "ReadError"
    ELSE IF Unmarshals(response) THEN "ok"
    ELSE "DecodeError"

\* ParseResponse: "ok" stands for a decoded output and a nil error.
ParseResponse(response) ==
    IF response.status < 200 \/ response.status >= 300 THEN parseErrorResponse(response)
    ELSE IF response.body.kind = "unreadable" THEN "ReadError"
    ELSE IF response.body.kind = "empty" THEN "MissingCredentials"
    ELSE IF Unmarshals(response) THEN "ok"
    ELSE "DecodeError"

\* The text of the error ParseResponse returns: a fixed text for the three
\* sentinel errors, the server's message for a RailDataError, the method name
\* and the status line for a status error, the method name for a decode error.
ErrorText(response) ==
    LET err == ParseResponse(response)
        text(form, method, status, message) ==
            [form |-> form, method |-> method, status |-> status, message |-> message]
    IN CASE err = "RailDataError" -> text("message", "", 0, response.body.errorMessage)
         [] err = "StatusError"   -> text("status", response.method, response.status, "")
         [] err = "DecodeError"   -> text("unmarshal", response.method, 0, "")
         [] OTHER                 -> text(err, "", 0, "")

\* MethodDefinition.Request, after the request was sent: the error it returns.
Request(outcome) ==
    IF outcome.do = "error" THEN "TransportError" ELSE ParseResponse(outcome)

\* ------------------------------------------------------------ token store
\* A mutex that excludes nobody.
CanLock_NoExclusion == TRUE

\* sync.Mutex.Lock returns only when nobody holds the mutex.
CanLock == tokenMutex = Free

\* GetToken: lock, copy, unlock.
GetToken == token

\* The listeners called with the two tokens in the other order.
Notifications_Swapped(new, old) ==
    [l \in 1..tokenUpdateListeners |-> [listener |-> l, newToken |-> old, previousToken |-> new]]

\* The goroutines started by "for _, listener := range ... { go listener(new, old) }".
Notifications(new, old) ==
    [l \in 1..tokenUpdateListeners |-> [listener |-> l, newToken |-> new, previousToken |-> old]]

\* Mutex.Unlock, deferred, left out.
Unlock_Missing(holder) == holder

\* The deferred s.tokenMutex.Unlock(): the mutex after its holder returns.
Unlocked(holder) == Free

Unparsed == [err |-> "none", text |-> [form |-> "none", method |-> "", status |-> 0, message |-> ""]]

\* The client NewClient returns: credentials given or not, the token given,
\* the listeners given, nothing in progress.
NewClient ==
    /\ credentials \in BOOLEAN
    /\ token = 0
    /\ tokenMutex = Free
    /\ tokenUpdateListeners = NumListeners
    /\ spawned = <<>>
    /\ stores = <<>>
    /\ ran = {}
    /\ panicked = FALSE
    /\ saved = [l \in 1..NumListeners |-> 0]
    /\ gres = [c \in Callers |-> "none"]
    /\ pc = [c \in Callers |-> "idle"]
    /\ tok = [c \in Callers |-> 0]
    /\ sent = [c \in Callers |-> <<>>]
    /\ res1 = [c \in Callers |-> "none"]
    /\ rerr = [c \in Callers |-> "none"]
    /\ gets = [c \in Callers |-> 0]
    /\ out = [c \in Callers |-> NoOutput]
    /\ res2 = [c \in Callers |-> "none"]
    /\ ret = [c \in Callers |-> "none"]
    /\ requested = {}
    /\ calls = 0
    /\ got = {}

\* No finder was made.
NoFinder == [new |-> "none", type |-> "none", list |-> <<>>, aliases |-> <<>>,
             code |-> <<>>, name |-> <<>>]
NoResult == <<>>
\* No color was parsed or rendered.
NoColor == <<>>
NoRendered == [html |-> <<>>, rgb |-> <<>>]
Colorless == colorSpec = <<>> /\ color = NoColor /\ rendered = NoRendered
\* fuzzyMatch was given nothing.
NoMatch == <<>>
Matchless == matchArgs = NoMatch /\ matchResult = NoMatch
\* No finder's values are followed.
NoCatalog == <<>>
Frameless == catalog = NoCatalog /\ finders = <<>>

Init ==
    /\ NewClient
    /\ httpResponse = NoResponse
    /\ parsed = Unparsed
    /\ finder = NoFinder
    /\ result = NoResult
    /\ Colorless
    /\ Matchless
    /\ Frameless

\* The process is alive: a panic that no goroutine recovers ends it, and then
\* no goroutine takes another step.
Running == ~panicked

\* A caller invokes a public method (IsValidToken, GetStationList, ...): they all
\* go through request().
Call(c) ==
    /\ Running
    /\ pc[c] \in {"idle", "done"}
    /\ calls < MaxCalls
    /\ calls' = calls + 1
    /\ pc' = [pc EXCEPT ![c] = "getToken1"]
    /\ tok' = [tok EXCEPT ![c] = 0]
    /\ sent' = [sent EXCEPT ![c] = <<>>]
    /\ res1' = [res1 EXCEPT ![c] = "none"]
    /\ rerr' = [rerr EXCEPT ![c] = "none"]
    /\ gets' = [gets EXCEPT ![c] = 0]
    /\ gres' = [gres EXCEPT ![c] = "none"]
    /\ out' = [out EXCEPT ![c] = NoOutput]
    /\ res2' = [res2 EXCEPT ![c] = "none"]
    /\ ret' = [ret EXCEPT ![c] = "none"]
    /\ UNCHANGED <<credentials, token, tokenMutex, tokenUpdateListeners, spawned, stores,
                   requested, ran, panicked, saved, httpResponse, parsed, finder, result, pureVars, got>>

\* request(), line 258: token := s.GetToken()
ReadToken1(c) ==
    /\ Running
    /\ pc[c] = "getToken1"
    /\ CanLock
    /\ tok' = [tok EXCEPT ![c] = GetToken]
    /\ pc' = [pc EXCEPT ![c] = "request1"]
    /\ UNCHANGED <<credentials, token, tokenMutex, tokenUpdateListeners, spawned, stores,
                   gres, ran, panicked, saved, httpResponse, parsed, finder, result, pureVars, got,
                   sent, res1, rerr, gets, out, res2, ret, requested, calls>>

\* request(), lines 259-260: SetToken and the sending half of method.Request
SendRequest1(c) ==
    /\ Running
    /\ pc[c] = "request1"
    /\ sent' = [sent EXCEPT ![c] = Append(@, tok[c])]
    /\ pc' = [pc EXCEPT ![c] = "wait1"]
    /\ UNCHANGED <<credentials, token, tokenMutex, tokenUpdateListeners, spawned, stores,
                   gres, ran, panicked, saved, httpResponse, parsed, finder, result, pureVars, got,
                   tok, res1, rerr, gets, out, res2, ret, requested, calls>>

\* Every failure leads on to the refresh.
NeedsRefresh_AnyError(err) == err # "ok"

\* request(), line 261: only InvalidToken leads on to the refresh.
NeedsRefresh(err) == err = "InvalidToken"

\* request(), lines 260-263: the exchange ends; anything but InvalidToken is returned.
RecvResponse1(c) ==
    /\ Running
    /\ pc[c] = "wait1"
    /\ \E o \in PrimaryOutcomes :
         LET err == Request(o) IN
           /\ res1' = [res1 EXCEPT ![c] = err]
           /\ IF NeedsRefresh(err)
                THEN /\ pc' = [pc EXCEPT ![c] = "refreshToken"]
                     /\ ret' = ret
                ELSE /\ pc' = [pc EXCEPT ![c] = "done"]
                     /\ ret' = [ret EXCEPT ![c] = err]
    /\ UNCHANGED <<credentials, token, tokenMutex, tokenUpdateListeners, spawned, stores,
                   gres, ran, panicked, saved, httpResponse, parsed, finder, result, pureVars, got,
                   tok, sent, rerr, gets, out, res2, requested, calls>>

\* The nil check left out.
HasCredentials_Unchecked == TRUE

\* refreshToken(), line 228: s.credentials != nil
HasCredentials == credentials

\* The first exchange's error returned when the refresh fails.
RefreshFailure_First(first, refreshErr) == first

\* request(), lines 265-268: what is returned when refreshToken fails.
RefreshFailure(first, refreshErr) == refreshErr

\* refreshToken(), lines 228-230, and request(), lines 265-268
RefreshEnter(c) ==
    /\ Running
    /\ pc[c] = "refreshToken"
    /\ IF ~HasCredentials
         THEN /\ rerr' = [rerr EXCEPT ![c] = "MissingCredentials"]
              /\ ret' = [ret EXCEPT ![c] = RefreshFailure(res1[c], "MissingCredentials")]
              /\ pc' = [pc EXCEPT ![c] = "done"]
         ELSE /\ pc' = [pc EXCEPT ![c] = "lock"]
              /\ UNCHANGED <<rerr, ret>>
    /\ UNCHANGED <<credentials, token, tokenMutex, tokenUpdateListeners, spawned, stores,
                   gres, ran, panicked, saved, httpResponse, parsed, finder, result, pureVars, got,
                   tok, sent, res1, gets, out, res2, requested, calls>>

\* The comparison left out: every refresh goes to the server.
AlreadyRefreshed_Never(oldToken) == FALSE

\* refreshToken(), line 234: the stored token is no longer the observed one.
AlreadyRefreshed(oldToken) == token # oldToken

\* refreshToken(), lines 232-242: Lock, compare, and either return nil (the
\* deferred Unlock runs) or send the getToken request while holding the mutex.
RefreshLock(c) ==
    /\ Running
    /\ pc[c] = "lock"
    /\ CanLock
    /\ IF AlreadyRefreshed(tok[c])
         THEN /\ rerr' = [rerr EXCEPT ![c] = "nil"]
              /\ pc' = [pc EXCEPT ![c] = "getToken2"]
              /\ UNCHANGED <<tokenMutex, gets, requested>>
         ELSE /\ tokenMutex' = c
              /\ gets' = [gets EXCEPT ![c] = @ + 1]
              /\ requested' = requested \cup {tok[c]}
              /\ pc' = [pc EXCEPT ![c] = "waitToken"]
              /\ UNCHANGED rerr
    /\ UNCHANGED <<credentials, token, tokenUpdateListeners, spawned, stores,
                   gres, ran, panicked, saved, httpResponse, parsed, finder, result, pureVars, got,
                   tok, sent, res1, out, res2, ret, calls>>

\* The Authenticated field ignored.
IsAuthenticated_Unchecked(output) == TRUE

\* refreshToken(), line 247
IsAuthenticated(output) == output.Authenticated = "True"

\* refreshToken(), lines 242-253, and request(), lines 265-268: the getToken
\* exchange ends.  On a failure refreshToken returns (the deferred Unlock runs)
\* and request() returns the failure.  On success the token is stored and the
\* listeners' goroutines are started; the mutex is still held.
RefreshRecv(c) ==
    /\ Running
    /\ pc[c] = "waitToken"
    /\ \E o \in GetTokenOutcomes :
         LET err == Request(o)
             output == [Authenticated |-> o.Authenticated, UserToken |-> o.UserToken] IN
           /\ gres' = [gres EXCEPT ![c] = err]
           /\ IF err # "ok"
                THEN /\ rerr' = [rerr EXCEPT ![c] = err]
                     /\ ret' = [ret EXCEPT ![c] = RefreshFailure(res1[c], err)]
                     /\ pc' = [pc EXCEPT ![c] = "done"]
                     /\ tokenMutex' = Unlocked(c)
                     /\ UNCHANGED <<token, spawned, stores, out>>
              ELSE IF ~IsAuthenticated(output)
                THEN /\ out' = [out EXCEPT ![c] = output]
                     /\ rerr' = [rerr EXCEPT ![c] = "BadCredentials"]
                     /\ ret' = [ret EXCEPT ![c] = RefreshFailure(res1[c], "BadCredentials")]
                     /\ pc' = [pc EXCEPT ![c] = "done"]
                     /\ tokenMutex' = Unlocked(c)
                     /\ UNCHANGED <<token, spawned, stores>>
              ELSE /\ out' = [out EXCEPT ![c] = output]
                   /\ token' = output.UserToken
                   /\ stores' = Append(stores, output)
                   /\ spawned' = spawned \o Notifications(output.UserToken, tok[c])
                   /\ pc' = [pc EXCEPT ![c] = "unlock"]
                   /\ UNCHANGED <<tokenMutex, rerr, ret>>
    /\ UNCHANGED <<credentials, tokenUpdateListeners, tok, sent, res1, gets, res2,
                   requested, calls, ran, panicked, saved, httpResponse, parsed, finder, result, pureVars, got>>

\* The goroutines started by c's refresh, while c has not yet returned from it.
Batch == (Len(spawned) - tokenUpdateListeners + 1)..Len(spawned)

\* The listeners called in place: refreshToken returns after they all began.
Awaits_All(batch) == batch

\* refreshToken(), line 252: a "go" statement does not wait for the function
\* it starts, so refreshToken waits for none of the listeners.
Awaits(batch) == {}

\* refreshToken(), lines 254 and 233: return nil; the deferred Unlock runs.
RefreshReturn(c) ==
    /\ Running
    /\ pc[c] = "unlock"
    /\ Awaits(Batch) \subseteq ran
    /\ tokenMutex' = Unlocked(c)
    /\ rerr' = [rerr EXCEPT ![c] = "nil"]
    /\ pc' = [pc EXCEPT ![c] = "getToken2"]
    /\ UNCHANGED <<credentials, token, tokenUpdateListeners, spawned, stores,
                   gres, ran, panicked, saved, httpResponse, parsed, finder, result, pureVars, got,
                   tok, sent, res1, gets, out, res2, ret, requested, calls>>

\* The retry sent with the token read before the refresh.
TokenForRetry_Stale(observed) == observed

\* request(), line 269: the token the retry carries is read again from the store.
TokenForRetry(observed) == GetToken

\* request(), line 269: token = s.GetToken()
ReadToken2(c) ==
    /\ Running
    /\ pc[c] = "getToken2"
    /\ CanLock
    /\ tok' = [tok EXCEPT ![c] = TokenForRetry(tok[c])]
    /\ pc' = [pc EXCEPT ![c] = "request2"]
    /\ UNCHANGED <<credentials, token, tokenMutex, tokenUpdateListeners, spawned, stores,
                   gres, ran, panicked, saved, httpResponse, parsed, finder, result, pureVars, got,
                   sent, res1, rerr, gets, out, res2, ret, requested, calls>>

\* request(), lines 270-271: SetToken and the sending half of the retry
SendRequest2(c) ==
    /\ Running
    /\ pc[c] = "request2"
    /\ sent' = [sent EXCEPT ![c] = Append(@, tok[c])]
    /\ pc' = [pc EXCEPT ![c] = "wait2"]
    /\ UNCHANGED <<credentials, token, tokenMutex, tokenUpdateListeners, spawned, stores,
                   gres, ran, panicked, saved, httpResponse, parsed, finder, result, pureVars, got,
                   tok, res1, rerr, gets, out, res2, ret, requested, calls>>

\* The first exchange's error returned after the retry.
RetryResult_First(first, second) == first

\* request(), line 271: what is returned once the retry has a result.
RetryResult(first, second) == second

\* A retry loop: InvalidToken on the retry leads to another refresh.
RetryAgain_OnInvalidToken(err) == err = "InvalidToken"

\* request(), line 271: no result of the retry leads to another refresh.
RetryAgain(err) == FALSE

\* request(), line 271: the retry's result is returned unconditionally.
RecvResponse2(c) ==
    /\ Running
    /\ pc[c] = "wait2"
    /\ \E o \in PrimaryOutcomes :
         /\ res2' = [res2 EXCEPT ![c] = Request(o)]
         /\ IF RetryAgain(Request(o))
              THEN /\ pc' = [pc EXCEPT ![c] = "refreshToken"]
                   /\ ret' = ret
              ELSE /\ pc' = [pc EXCEPT ![c] = "done"]
                   /\ ret' = [ret EXCEPT ![c] = RetryResult(res1[c], Request(o))]
    /\ UNCHANGED <<credentials, token, tokenMutex, tokenUpdateListeners, spawned, stores,
                   gres, ran, panicked, saved, httpResponse, parsed, finder, result, pureVars, got,
                   tok, sent, res1, rerr, gets, out, requested, calls>>

\* tokenFileUpdater's transform of the token file, done under the file's lock:
\* the file gets the new token only if it holds the old one.
tokenFileUpdater(file, newToken, oldToken) ==
    IF file # oldToken THEN file ELSE newToken

\* A goroutine started by "go listener(new, old)" is scheduled and runs the
\* listener, which is the command line tool's tokenFileUpdater on the
\* listener's own file; nothing in the client waits for it or for its return.
ListenerRun(i) ==
    /\ Running
    /\ i \in 1..Len(spawned)
    /\ i \notin ran
    /\ ran' = ran \cup {i}
    /\ saved' = [saved EXCEPT ![spawned[i].listener] =
                    tokenFileUpdater(@, spawned[i].newToken, spawned[i].previousToken)]
    /\ UNCHANGED <<credentials, token, tokenMutex, tokenUpdateListeners, spawned, stores,
                   pc, tok, sent, res1, rerr, gets, gres, out, res2, ret, requested, calls,
                   panicked, httpResponse, parsed, finder, result, pureVars, got>>

\* A running listener panics.  Its goroutine has no recover, so the panic ends
\* the process: no goroutine takes another step.
ListenerPanic(i) ==
    /\ Running
    /\ i \in ran
    /\ panicked' = TRUE
    /\ UNCHANGED <<credentials, token, tokenMutex, tokenUpdateListeners, spawned, stores,
                   pc, tok, sent, res1, rerr, gets, gres, out, res2, ret, requested, calls,
                   ran, saved, httpResponse, parsed, finder, result, pureVars, got>>

Next ==
    \E c \in Callers :
        \/ Call(c)
        \/ ReadToken1(c)
        \/ SendRequest1(c)
        \/ RecvResponse1(c)
        \/ RefreshEnter(c)
        \/ RefreshLock(c)
        \/ RefreshRecv(c)
        \/ RefreshReturn(c)
        \/ ReadToken2(c)
        \/ SendRequest2(c)
        \/ RecvResponse2(c)

Spec == Init /\ [][Next]_vars

\* The steps of caller c inside a call it has started.
Progress(c) ==
    \/ ReadToken1(c)
    \/ SendRequest1(c)
    \/ RecvResponse1(c)
    \/ RefreshEnter(c)
    \/ RefreshLock(c)
    \/ RefreshRecv(c)
    \/ RefreshReturn(c)
    \/ ReadToken2(c)
    \/ SendRequest2(c)
    \/ RecvResponse2(c)

\* The client and its callers when every HTTP exchange terminates and the
\* scheduler runs every goroutine that can run: a caller inside a call whose
\* next step stays possible takes it.  Nothing obliges a caller to start a call.
SpecLive == Spec /\ \A c \in Callers : WF_vars(Progress(c))

\* A goroutine started by "go listener(new, old)" runs a listener that calls
\* GetToken of the client that notified it: Lock, copy, Unlock.
ListenerGetToken(i) ==
    /\ Running
    /\ i \in 1..Len(spawned)
    /\ i \notin ran
    /\ CanLock
    /\ ran' = ran \cup {i}
    /\ got' = got \cup {[goroutine |-> i, token |-> GetToken]}
    /\ UNCHANGED <<credentials, token, tokenMutex, tokenUpdateListeners, spawned, stores,
                   pc, tok, sent, res1, rerr, gets, gres, out, res2, ret, requested, calls,
                   panicked, saved, httpResponse, parsed, finder, result, pureVars>>

\* The client, its callers and listeners that call GetToken, when every HTTP
\* exchange terminates and the scheduler runs every goroutine that can run.
NextReentrant ==
    \/ Next
    \/ \E i \in 1..(MaxCalls * NumListeners) : ListenerGetToken(i)

SpecReentrant ==
    /\ Init
    /\ [][NextReentrant]_vars
    /\ \A c \in Callers : WF_vars(Progress(c))
    /\ \A i \in 1..(MaxCalls * NumListeners) : WF_vars(ListenerGetToken(i))

\* The client together with the goroutines of its listeners.
NextListeners ==
    \/ Next
    \/ \E i \in 1..(MaxCalls * NumListeners) : ListenerRun(i)
    \/ \E i \in 1..(MaxCalls * NumListeners) : ListenerPanic(i)

SpecListeners == Init /\ [][NextListeners]_vars

\* ParseResponse applied on its own to every response of Responses.
InitParse ==
    /\ NewClient
    /\ httpResponse \in Responses
    /\ parsed = Unparsed
    /\ finder = NoFinder
    /\ result = NoResult
    /\ Colorless
    /\ Matchless
    /\ Frameless

Parse ==
    /\ parsed = Unparsed
    /\ parsed' = [err |-> ParseResponse(httpResponse), text |-> ErrorText(httpResponse)]
    /\ UNCHANGED <<credentials, token, tokenMutex, tokenUpdateListeners, spawned, stores,
                   pc, tok, sent, res1, rerr, gets, gres, out, res2, ret, requested, calls,
                   ran, panicked, saved, httpResponse, finder, result, pureVars, got>>

SpecParse == InitParse /\ [][Parse]_vars

\* ------------------------------------------------------------------ finder
\* Strings are sequences of one-character strings.  A *string (f.code,
\* f.name) is a sequence of at most one string: <<>> is nil.
Upper == <<"A","B","C","D","E","F","G","H","I","J","K","L","M",
           "N","O","P","Q","R","S","T","U","V","W","X","Y","Z">>
Lower == <<"a","b","c","d","e","f","g","h","i","j","k","l","m",
           "n","o","p","q","r","s","t","u","v","w","x","y","z">>
LowerOf == [ch \in {Upper[i] : i \in 1..26} |-> Lower[CHOOSE i \in 1..26 : Upper[i] = ch]]

\* strings.ToLower on the characters the catalogs and the queries are made of.
ToLower(s) == [i \in 1..Len(s) |-> IF s[i] \in DOMAIN LowerOf THEN LowerOf[s[i]] ELSE s[i]]

Max(a, b) == IF a >= b THEN a ELSE b
Min(a, b) == IF a <= b THEN a ELSE b

\* codes.go: var Stations (strings are sequences of characters).
Stations == <<
    [Code |-> <<"A","M">>, Name |-> <<"A","b","e","r","d","e","e","n","-","M","a","t","a","w","a","n">>, ShortName |-> <<"M","a","t","a","w","a","n">>],
    [Code |-> <<"A","B">>, Name |-> <<"A","b","s","e","c","o","n">>, ShortName |-> <<"A","b","s","e","c","o","n">>],
    [Code |-> <<"A","Z">>, Name |-> <<"A","l","l","e","n","d","a","l","e">>, ShortName |-> <<"A","l","l","e","n","d","a","l","e">>],
    [Code |-> <<"A","H">>, Name |-> <<"A","l","l","e","n","h","u","r","s","t">>, ShortName |-> <<"A","l","l","e","n","h","u","r","s","t">>],
    [Code |-> <<"A","S">>, Name |-> <<"A","n","d","e","r","s","o","n"," ","S","t","r","e","e","t">>, ShortName |-> <<"A","n","d","e","r","s","o","n"," ","S","t",".">>],
    [Code |-> <<"A","N">>, Name |-> <<"A","n","n","a","n","d","a","l","e">>, ShortName |-> <<"A","n","n","a","n","d","a","l","e">>],
    [Code |-> <<"A","P">>, Name |-> <<"A","s","b","u","r","y"," ","P","a","r","k">>, ShortName |-> <<"A","s","b","u","r","y"," ","P","a","r","k">>],
    [Code |-> <<"A","O">>, Name |-> <<"A","t","c","o">>, ShortName |-> <<"A","t","c","o">>],
    [Code |-> <<"A","C">>, Name |-> <<"A","t","l","a","n","t","i","c"," ","C","i","t","y"," ","R","a","i","l"," ","T","e","r","m","i","n","a","l">>, ShortName |-> <<"A","t","l","a","n","t","i","c"," ","C","i","t","y">>],
    [Code |-> <<"A","V">>, Name |-> <<"A","v","e","n","e","l">>, ShortName |-> <<"A","v","e","n","e","l">>],
    [Code |-> <<"B","A">>, Name |-> <<"B","W","I"," ","T","h","u","r","g","o","o","d"," ","M","a","r","s","h","a","l","l"," ","A","i","r","p","o","r","t">>, ShortName |-> <<"B","W","I"," ","A","i","r","p","o","r","t">>],
    [Code |-> <<"B","L">>, Name |-> <<"B","a","l","t","i","m","o","r","e"," ","S","t","a","t","i","o","n">>, ShortName |-> <<"B","a","l","t","i","m","o","r","e">>],
    [Code |-> <<"B","I">>, Name |-> <<"B","a","s","k","i","n","g"," ","R","i","d","g","e">>, ShortName |-> <<"B","a","s","k","i","n","g"," ","R","i","d","g","e">>],
    [Code |-> <<"B","H">>, Name |-> <<"B","a","y"," ","H","e","a","d">>, ShortName |-> <<"B","a","y"," ","H","e","a","d">>],
    [Code |-> <<"M","C">>, Name |-> <<"B","a","y"," ","S","t","r","e","e","t">>, ShortName |-> <<"B","a","y"," ","S","t","r","e","e","t">>],
    [Code |-> <<"B","S">>, Name |-> <<"B","e","l","m","a","r">>, ShortName |-> <<"B","e","l","m","a","r">>],
    [Code |-> <<"B","Y">>, Name |-> <<"B","e","r","k","e","l","e","y"," ","H","e","i","g","h","t","s">>, ShortName |-> <<"B","e","r","k","e","l","e","y"," ","H","t","s">>],
    [Code |-> <<"B","V">>, Name |-> <<"B","e","r","n","a","r","d","s","v","i","l","l","e">>, ShortName |-> <<"B","e","r","n","a","r","d","s","v","i","l","l","e">>],
    [Code |-> <<"B","M">>, Name |-> <<"B","l","o","o","m","f","i","e","l","d">>, ShortName |-> <<"B","l","o","o","m","f","i","e","l","d">>],
    [Code |-> <<"B","N">>, Name |-> <<"B","o","o","n","t","o","n">>, ShortName |-> <<"B","o","o","n","t","o","n">>],
    [Code |-> <<"B","K">>, Name |-> <<"B","o","u","n","d"," ","B","r","o","o","k">>, ShortName |-> <<"B","o","u","n","d"," ","B","r","o","o","k">>],
    [Code |-> <<"B","B">>, Name |-> <<"B","r","a","d","l","e","y"," ","B","e","a","c","h">>, ShortName |-> <<"B","r","a","d","l","e","y"," ","B","e","a","c","h">>],
    [Code |-> <<"B","U">>, Name |-> <<"B","r","i","c","k"," ","C","h","u","r","c","h">>, ShortName |-> <<"B","r","i","c","k"," ","C","h","u","r","c","h">>],
    [Code |-> <<"B","W">>, Name |-> <<"B","r","i","d","g","e","w","a","t","e","r">>, ShortName |-> <<"B","r","i","d","g","e","w","a","t","e","r">>],
    [Code |-> <<"B","F">>, Name |-> <<"B","r","o","a","d","w","a","y"," ","F","a","i","r"," ","L","a","w","n">>, ShortName |-> <<"B","r","o","a","d","w","a","y","-","F","l">>],
    [Code |-> <<"C","B">>, Name |-> <<"C","a","m","p","b","e","l","l"," ","H","a","l","l">>, ShortName |-> <<"C","a","m","p","b","e","l","l"," ","H","a","l","l">>],
    [Code |-> <<"C","M">>, Name |-> <<"C","h","a","t","h","a","m">>, ShortName |-> <<"C","h","a","t","h","a","m">>],
    [Code |-> <<"C","Y">>, Name |-> <<"C","h","e","r","r","y"," ","H","i","l","l">>, ShortName |-> <<"C","h","e","r","r","y"," ","H","i","l","l">>],
    [Code |-> <<"I","F">>, Name |-> <<"C","l","i","f","t","o","n">>, ShortName |-> <<"C","l","i","f","t","o","n">>],
    [Code |-> <<"C","N">>, Name |-> <<"C","o","n","v","e","n","t"," ","S","t","a","t","i","o","n">>, ShortName |-> <<"C","o","n","v","e","n","t"," ","S","t","n">>],
    [Code |-> <<"X","C">>, Name |-> <<"C","r","a","n","f","o","r","d">>, ShortName |-> <<"C","r","a","n","f","o","r","d">>],
    [Code |-> <<"D","L">>, Name |-> <<"D","e","l","a","w","a","n","n","a">>, ShortName |-> <<"D","e","l","a","w","a","n","n","a">>],
    [Code |-> <<"D","V">>, Name |-> <<"D","e","n","v","i","l","l","e">>, ShortName |-> <<"D","e","n","v","i","l","l","e">>],
    [Code |-> <<"D","O">>, Name |-> <<"D","o","v","e","r">>, ShortName |-> <<"D","o","v","e","r">>],
    [Code |-> <<"D","N">>, Name |-> <<"D","u","n","e","l","l","e","n">>, ShortName |-> <<"D","u","n","e","l","l","e","n">>],
    [Code |-> <<"E","O">>, Name |-> <<"E","a","s","t"," ","O","r","a","n","g","e">>, ShortName |-> <<"E","a","s","t"," ","O","r","a","n","g","e">>],
    [Code |-> <<"E","D">>, Name |-> <<"E","d","i","s","o","n">>, ShortName |-> <<"E","d","i","s","o","n">>],
    [Code |-> <<"E","H">>, Name |-> <<"E","g","g"," ","H","a","r","b","o","r"," ","C","i","t","y">>, ShortName |-> <<"E","g","g"," ","H","a","r","b","o","r">>],
    [Code |-> <<"E","L">>, Name |-> <<"E","l","b","e","r","o","n">>, ShortName |-> <<"E","l","b","e","r","o","n">>],
    [Code |-> <<"E","Z">>, Name |-> <<"E","l","i","z","a","b","e","t","h">>, ShortName |-> <<"E","l","i","z","a","b","e","t","h">>],
    [Code |-> <<"E","N">>, Name |-> <<"E","m","e","r","s","o","n">>, ShortName |-> <<"E","m","e","r","s","o","n">>],
    [Code |-> <<"E","X">>, Name |-> <<"E","s","s","e","x"," ","S","t","r","e","e","t">>, ShortName |-> <<"E","s","s","e","x"," ","S","t","r","e","e","t">>],
    [Code |-> <<"F","W">>, Name |-> <<"F","a","n","w","o","o","d">>, ShortName |-> <<"F","a","n","w","o","o","d">>],
    [Code |-> <<"F","H">>, Name |-> <<"F","a","r"," ","H","i","l","l","s">>, ShortName |-> <<"F","a","r"," ","H","i","l","l","s">>],
    [Code |-> <<"F","E">>, Name |-> <<"F","i","n","d","e","r","n","e">>, ShortName |-> <<"F","i","n","d","e","r","n","e">>],
    [Code |-> <<"G","D">>, Name |-> <<"G","a","r","f","i","e","l","d">>, ShortName |-> <<"G","a","r","f","i","e","l","d">>],
    [Code |-> <<"G","W">>, Name |-> <<"G","a","r","w","o","o","d">>, ShortName |-> <<"G","a","r","w","o","o","d">>],
    [Code |-> <<"G","I">>, Name |-> <<"G","i","l","l","e","t","t","e">>, ShortName |-> <<"G","i","l","l","e","t","t","e">>],
    [Code |-> <<"G","L">>, Name |-> <<"G","l","a","d","s","t","o","n","e">>, ShortName |-> <<"G","l","a","d","s","t","o","n","e">>],
    [Code |-> <<"G","G">>, Name |-> <<"G","l","e","n"," ","R","i","d","g","e">>, ShortName |-> <<"G","l","e","n"," ","R","i","d","g","e">>],
    [Code |-> <<"G","K">>, Name |-> <<"G","l","e","n"," ","R","o","c","k"," ","B","o","r","o"," ","H","a","l","l">>, ShortName |-> <<"G","l","e","n"," ","R","o","c","k"," ","B","o","r","o">>],
    [Code |-> <<"R","S">>, Name |-> <<"G","l","e","n"," ","R","o","c","k"," ","M","a","i","n"," ","L","i","n","e">>, ShortName |-> <<"G","l","e","n"," ","R","o","c","k"," ","M","a","i","n">>],
    [Code |-> <<"G","A">>, Name |-> <<"G","r","e","a","t"," ","N","o","t","c","h">>, ShortName |-> <<"G","r","e","a","t"," ","N","o","t","c","h">>],
    [Code |-> <<"H","Q">>, Name |-> <<"H","a","c","k","e","t","t","s","t","o","w","n">>, ShortName |-> <<"H","a","c","k","e","t","t","s","t","o","w","n">>],
    [Code |-> <<"H","L">>, Name |-> <<"H","a","m","i","l","t","o","n">>, ShortName |-> <<"H","a","m","i","l","t","o","n">>],
    [Code |-> <<"H","N">>, Name |-> <<"H","a","m","m","o","n","t","o","n">>, ShortName |-> <<"H","a","m","m","o","n","t","o","n">>],
    [Code |-> <<"R","M">>, Name |-> <<"H","a","r","r","i","m","a","n">>, ShortName |-> <<"H","a","r","r","i","m","a","n">>],
    [Code |-> <<"H","W">>, Name |-> <<"H","a","w","t","h","o","r","n","e">>, ShortName |-> <<"H","a","w","t","h","o","r","n","e">>],
    [Code |-> <<"H","Z">>, Name |-> <<"H","a","z","l","e","t">>, ShortName |-> <<"H","a","z","l","e","t">>],
    [Code |-> <<"H","G">>, Name |-> <<"H","i","g","h"," ","B","r","i","d","g","e">>, ShortName |-> <<"H","i","g","h"," ","B","r","i","d","g","e">>],
    [Code |-> <<"H","I">>, Name |-> <<"H","i","g","h","l","a","n","d"," ","A","v","e","n","u","e">>, ShortName |-> <<"H","i","g","h","l","a","n","d"," ","A","v","e",".">>],
    [Code |-> <<"H","D">>, Name |-> <<"H","i","l","l","s","d","a","l","e">>, ShortName |-> <<"H","i","l","l","s","d","a","l","e">>],
    [Code |-> <<"H","B">>, Name |-> <<"H","o","b","o","k","e","n">>, ShortName |-> <<"H","o","b","o","k","e","n">>],
    [Code |-> <<"U","F">>, Name |-> <<"H","o","h","o","k","u","s">>, ShortName |-> <<"H","o","h","o","k","u","s">>],
    [Code |-> <<"J","A">>, Name |-> <<"J","e","r","s","e","y"," ","A","v","e","n","u","e">>, ShortName |-> <<"J","e","r","s","e","y"," ","A","v","e",".">>],
    [Code |-> <<"K","G">>, Name |-> <<"K","i","n","g","s","l","a","n","d">>, ShortName |-> <<"K","i","n","g","s","l","a","n","d">>],
    [Code |-> <<"H","P">>, Name |-> <<"L","a","k","e"," ","H","o","p","a","t","c","o","n","g">>, ShortName |-> <<"L","a","k","e"," ","H","o","p","a","t","c","o","n","g">>],
    [Code |-> <<"O","N">>, Name |-> <<"L","e","b","a","n","o","n">>, ShortName |-> <<"L","e","b","a","n","o","n">>],
    [Code |-> <<"L","P">>, Name |-> <<"L","i","n","c","o","l","n"," ","P","a","r","k">>, ShortName |-> <<"L","i","n","c","o","l","n"," ","P","a","r","k">>],
    [Code |-> <<"L","I">>, Name |-> <<"L","i","n","d","e","n">>, ShortName |-> <<"L","i","n","d","e","n">>],
    [Code |-> <<"L","W">>, Name |-> <<"L","i","n","d","e","n","w","o","l","d">>, ShortName |-> <<"L","i","n","d","e","n","w","o","l","d">>],
    [Code |-> <<"F","A">>, Name |-> <<"L","i","t","t","l","e"," ","F","a","l","l","s">>, ShortName |-> <<"L","i","t","t","l","e"," ","F","a","l","l","s">>],
    [Code |-> <<"L","S">>, Name |-> <<"L","i","t","t","l","e"," ","S","i","l","v","e","r">>, ShortName |-> <<"L","i","t","t","l","e"," ","S","i","l","v","e","r">>],
    [Code |-> <<"L","B">>, Name |-> <<"L","o","n","g"," ","B","r","a","n","c","h">>, ShortName |-> <<"L","o","n","g"," ","B","r","a","n","c","h">>],
    [Code |-> <<"L","N">>, Name |-> <<"L","y","n","d","h","u","r","s","t">>, ShortName |-> <<"L","y","n","d","h","u","r","s","t">>],
    [Code |-> <<"L","Y">>, Name |-> <<"L","y","o","n","s">>, ShortName |-> <<"L","y","o","n","s">>],
    [Code |-> <<"M","A">>, Name |-> <<"M","a","d","i","s","o","n">>, ShortName |-> <<"M","a","d","i","s","o","n">>],
    [Code |-> <<"M","Z">>, Name |-> <<"M","a","h","w","a","h">>, ShortName |-> <<"M","a","h","w","a","h">>],
    [Code |-> <<"S","Q">>, Name |-> <<"M","a","n","a","s","q","u","a","n">>, ShortName |-> <<"M","a","n","a","s","q","u","a","n">>],
    [Code |-> <<"M","W">>, Name |-> <<"M","a","p","l","e","w","o","o","d">>, ShortName |-> <<"M","a","p","l","e","w","o","o","d">>],
    [Code |-> <<"X","U">>, Name |-> <<"M","e","a","d","o","w","l","a","n","d","s">>, ShortName |-> <<"M","e","a","d","o","w","l","a","n","d","s">>],
    [Code |-> <<"M","P">>, Name |-> <<"M","e","t","r","o","p","a","r","k">>, ShortName |-> <<"M","e","t","r","o","p","a","r","k">>],
    [Code |-> <<"M","U">>, Name |-> <<"M","e","t","u","c","h","e","n">>, ShortName |-> <<"M","e","t","u","c","h","e","n">>],
    [Code |-> <<"M","I">>, Name |-> <<"M","i","d","d","l","e","t","o","w","n"," ","N","J">>, ShortName |-> <<"M","i","d","d","l","e","t","o","w","n"," ","N","J">>],
    [Code |-> <<"M","D">>, Name |-> <<"M","i","d","d","l","e","t","o","w","n"," ","N","Y">>, ShortName |-> <<"M","i","d","d","l","e","t","o","w","n"," ","N","Y">>],
    [Code |-> <<"M","B">>, Name |-> <<"M","i","l","l","b","u","r","n">>, ShortName |-> <<"M","i","l","l","b","u","r","n">>],
    [Code |-> <<"G","O">>, Name |-> <<"M","i","l","l","i","n","g","t","o","n">>, ShortName |-> <<"M","i","l","l","i","n","g","t","o","n">>],
    [Code |-> <<"M","K">>, Name |-> <<"M","o","n","m","o","u","t","h"," ","P","a","r","k">>, ShortName |-> <<"M","o","n","m","o","u","t","h"," ","P","a","r","k">>],
    [Code |-> <<"H","S">>, Name |-> <<"M","o","n","t","c","l","a","i","r"," ","H","e","i","g","h","t","s">>, ShortName |-> <<"M","o","n","t","c","l","a","i","r"," ","H","t","s",".">>],
    [Code |-> <<"U","V">>, Name |-> <<"M","o","n","t","c","l","a","i","r"," ","S","t","a","t","e"," ","U">>, ShortName |-> <<"M","S","U">>],
    [Code |-> <<"Z","M">>, Name |-> <<"M","o","n","t","v","a","l","e">>, ShortName |-> <<"M","o","n","t","v","a","l","e">>],
    [Code |-> <<"M","X">>, Name |-> <<"M","o","r","r","i","s"," ","P","l","a","i","n","s">>, ShortName |-> <<"M","o","r","r","i","s"," ","P","l","a","i","n","s">>],
    [Code |-> <<"M","R">>, Name |-> <<"M","o","r","r","i","s","t","o","w","n">>, ShortName |-> <<"M","o","r","r","i","s","t","o","w","n">>],
    [Code |-> <<"H","V">>, Name |-> <<"M","o","u","n","t"," ","A","r","l","i","n","g","t","o","n">>, ShortName |-> <<"M","t","."," ","A","r","l","i","n","g","t","o","n">>],
    [Code |-> <<"O","L">>, Name |-> <<"M","o","u","n","t"," ","O","l","i","v","e">>, ShortName |-> <<"M","o","u","n","t"," ","O","l","i","v","e">>],
    [Code |-> <<"T","B">>, Name |-> <<"M","o","u","n","t"," ","T","a","b","o","r">>, ShortName |-> <<"M","o","u","n","t"," ","T","a","b","o","r">>],
    [Code |-> <<"M","S">>, Name |-> <<"M","o","u","n","t","a","i","n"," ","A","v","e","n","u","e">>, ShortName |-> <<"M","o","u","n","t","a","i","n"," ","A","v","e">>],
    [Code |-> <<"M","L">>, Name |-> <<"M","o","u","n","t","a","i","n"," ","L","a","k","e","s">>, ShortName |-> <<"M","o","u","n","t","a","i","n"," ","L","a","k","e","s">>],
    [Code |-> <<"M","T">>, Name |-> <<"M","o","u","n","t","a","i","n"," ","S","t","a","t","i","o","n">>, ShortName |-> <<"M","o","u","n","t","a","i","n"," ","S","t","n">>],
    [Code |-> <<"M","V">>, Name |-> <<"M","o","u","n","t","a","i","n"," ","V","i","e","w">>, ShortName |-> <<"M","o","u","n","t","a","i","n"," ","V","i","e","w">>],
    [Code |-> <<"M","H">>, Name |-> <<"M","u","r","r","a","y"," ","H","i","l","l">>, ShortName |-> <<"M","u","r","r","a","y"," ","H","i","l","l">>],
    [Code |-> <<"N","N">>, Name |-> <<"N","a","n","u","e","t">>, ShortName |-> <<"N","a","n","u","e","t">>],
    [Code |-> <<"N","T">>, Name |-> <<"N","e","t","c","o","n","g">>, ShortName |-> <<"N","e","t","c","o","n","g">>],
    [Code |-> <<"N","E">>, Name |-> <<"N","e","t","h","e","r","w","o","o","d">>, ShortName |-> <<"N","e","t","h","e","r","w","o","o","d">>],
    [Code |-> <<"N","H">>, Name |-> <<"N","e","w"," ","B","r","i","d","g","e"," ","L","a","n","d","i","n","g">>, ShortName |-> <<"N","e","w"," ","B","r","i","d","g","e"," ","L","d","g">>],
    [Code |-> <<"N","B">>, Name |-> <<"N","e","w"," ","B","r","u","n","s","w","i","c","k">>, ShortName |-> <<"N","e","w"," ","B","r","u","n","s","w","i","c","k">>],
    [Code |-> <<"N","C">>, Name |-> <<"N","e","w"," ","C","a","r","r","o","l","l","t","o","n"," ","S","t","a","t","i","o","n">>, ShortName |-> <<"N","e","w"," ","C","a","r","r","o","l","l","t","o","n">>],
    [Code |-> <<"N","V">>, Name |-> <<"N","e","w"," ","P","r","o","v","i","d","e","n","c","e">>, ShortName |-> <<"N","e","w"," ","P","r","o","v","i","d","e","n","c","e">>],
    [Code |-> <<"N","Y">>, Name |-> <<"N","e","w"," ","Y","o","r","k"," ","P","e","n","n"," ","S","t","a","t","i","o","n">>, ShortName |-> <<"N","e","w"," ","Y","o","r","k">>],
    [Code |-> <<"N","A">>, Name |-> <<"N","e","w","a","r","k"," ","A","i","r","p","o","r","t">>, ShortName |-> <<"N","e","w","a","r","k"," ","A","i","r","p","o","r","t">>],
    [Code |-> <<"N","D">>, Name |-> <<"N","e","w","a","r","k"," ","B","r","o","a","d"," ","S","t","r","e","e","t">>, ShortName |-> <<"N","e","w","a","r","k"," ","B","r","o","a","d">>],
    [Code |-> <<"N","P">>, Name |-> <<"N","e","w","a","r","k"," ","P","e","n","n"," ","S","t","a","t","i","o","n">>, ShortName |-> <<"N","e","w","a","r","k"," ","P","e","n","n">>],
    [Code |-> <<"O","R">>, Name |-> <<"N","o","r","t","h"," ","B","r","a","n","c","h">>, ShortName |-> <<"N","o","r","t","h"," ","B","r","a","n","c","h">>],
    [Code |-> <<"N","Z">>, Name |-> <<"N","o","r","t","h"," ","E","l","i","z","a","b","e","t","h">>, ShortName |-> <<"N","o","r","t","h"," ","E","l","i","z","a","b",".">>],
    [Code |-> <<"N","F">>, Name |-> <<"N","o","r","t","h"," ","P","h","i","l","a","d","e","l","p","h","i","a">>, ShortName |-> <<>>],
    [Code |-> <<"O","D">>, Name |-> <<"O","r","a","d","e","l","l">>, ShortName |-> <<"O","r","a","d","e","l","l">>],
    [Code |-> <<"O","G">>, Name |-> <<"O","r","a","n","g","e">>, ShortName |-> <<"O","r","a","n","g","e">>],
    [Code |-> <<"O","S">>, Name |-> <<"O","t","i","s","v","i","l","l","e">>, ShortName |-> <<"O","t","i","s","v","i","l","l","e">>],
    [Code |-> <<"P","V">>, Name |-> <<"P","a","r","k"," ","R","i","d","g","e">>, ShortName |-> <<"P","a","r","k"," ","R","i","d","g","e">>],
    [Code |-> <<"P","S">>, Name |-> <<"P","a","s","s","a","i","c">>, ShortName |-> <<"P","a","s","s","a","i","c">>],
    [Code |-> <<"R","N">>, Name |-> <<"P","a","t","e","r","s","o","n">>, ShortName |-> <<"P","a","t","e","r","s","o","n">>],
    [Code |-> <<"P","C">>, Name |-> <<"P","e","a","p","a","c","k">>, ShortName |-> <<"P","e","a","p","a","c","k">>],
    [Code |-> <<"P","Q">>, Name |-> <<"P","e","a","r","l"," ","R","i","v","e","r">>, ShortName |-> <<"P","e","a","r","l"," ","R","i","v","e","r">>],
    [Code |-> <<"P","N">>, Name |-> <<"P","e","n","n","s","a","u","k","e","n">>, ShortName |-> <<"P","e","n","n","s","a","u","k","e","n">>],
    [Code |-> <<"P","E">>, Name |-> <<"P","e","r","t","h"," ","A","m","b","o","y">>, ShortName |-> <<"P","e","r","t","h"," ","A","m","b","o","y">>],
    [Code |-> <<"P","H">>, Name |-> <<"P","h","i","l","a","d","e","l","p","h","i","a">>, ShortName |-> <<"P","h","i","l","a","d","e","l","p","h","i","a">>],
    [Code |-> <<"P","F">>, Name |-> <<"P","l","a","i","n","f","i","e","l","d">>, ShortName |-> <<"P","l","a","i","n","f","i","e","l","d">>],
    [Code |-> <<"P","L">>, Name |-> <<"P","l","a","u","d","e","r","v","i","l","l","e">>, ShortName |-> <<"P","l","a","u","d","e","r","v","i","l","l","e">>],
    [Code |-> <<"P","P">>, Name |-> <<"P","o","i","n","t"," ","P","l","e","a","s","a","n","t"," ","B","e","a","c","h">>, ShortName |-> <<"P","o","i","n","t"," ","P","l","e","a","s","a","n","t">>],
    [Code |-> <<"P","O">>, Name |-> <<"P","o","r","t"," ","J","e","r","v","i","s">>, ShortName |-> <<"P","o","r","t"," ","J","e","r","v","i","s">>],
    [Code |-> <<"P","R">>, Name |-> <<"P","r","i","n","c","e","t","o","n">>, ShortName |-> <<"P","r","i","n","c","e","t","o","n">>],
    [Code |-> <<"P","J">>, Name |-> <<"P","r","i","n","c","e","t","o","n"," ","J","u","n","c","t","i","o","n">>, ShortName |-> <<"P","r","i","n","c","e","t","o","n"," ","J","c","t",".">>],
    [Code |-> <<"F","Z">>, Name |-> <<"R","a","d","b","u","r","n"," ","F","a","i","r"," ","L","a","w","n">>, ShortName |-> <<"R","a","d","b","u","r","n","-","F","l">>],
    [Code |-> <<"R","H">>, Name |-> <<"R","a","h","w","a","y">>, ShortName |-> <<"R","a","h","w","a","y">>],
    [Code |-> <<"R","Y">>, Name |-> <<"R","a","m","s","e","y"," ","M","a","i","n"," ","S","t">>, ShortName |-> <<"R","a","m","s","e","y">>],
    [Code |-> <<"1","7">>, Name |-> <<"R","a","m","s","e","y"," ","R","o","u","t","e"," ","1","7">>, ShortName |-> <<"R","a","m","s","e","y"," ","R","t"," ","1","7">>],
    [Code |-> <<"R","A">>, Name |-> <<"R","a","r","i","t","a","n">>, ShortName |-> <<"R","a","r","i","t","a","n">>],
    [Code |-> <<"R","B">>, Name |-> <<"R","e","d"," ","B","a","n","k">>, ShortName |-> <<"R","e","d"," ","B","a","n","k">>],
    [Code |-> <<"R","W">>, Name |-> <<"R","i","d","g","e","w","o","o","d">>, ShortName |-> <<"R","i","d","g","e","w","o","o","d">>],
    [Code |-> <<"R","G">>, Name |-> <<"R","i","v","e","r"," ","E","d","g","e">>, ShortName |-> <<"R","i","v","e","r"," ","E","d","g","e">>],
    [Code |-> <<"R","L">>, Name |-> <<"R","o","s","e","l","l","e"," ","P","a","r","k">>, ShortName |-> <<"R","o","s","e","l","l","e"," ","P","a","r","k">>],
    [Code |-> <<"R","F">>, Name |-> <<"R","u","t","h","e","r","f","o","r","d">>, ShortName |-> <<"R","u","t","h","e","r","f","o","r","d">>],
    [Code |-> <<"C","W">>, Name |-> <<"S","a","l","i","s","b","u","r","y"," ","M","i","l","l","s","-","C","o","r","n","w","a","l","l">>, ShortName |-> <<"S","a","l","i","s","b","u","r","y"," ","M","l","s">>],
    [Code |-> <<"S","C">>, Name |-> <<"S","e","c","a","u","c","u","s"," ","C","o","n","c","o","u","r","s","e">>, ShortName |-> <<>>],
    [Code |-> <<"T","S">>, Name |-> <<"S","e","c","a","u","c","u","s"," ","L","o","w","e","r"," ","L","v","l">>, ShortName |-> <<"S","e","c","a","u","c","u","s">>],
    [Code |-> <<"S","E">>, Name |-> <<"S","e","c","a","u","c","u","s"," ","U","p","p","e","r"," ","L","v","l">>, ShortName |-> <<"S","e","c","a","u","c","u","s">>],
    [Code |-> <<"R","T">>, Name |-> <<"S","h","o","r","t"," ","H","i","l","l","s">>, ShortName |-> <<"S","h","o","r","t"," ","H","i","l","l","s">>],
    [Code |-> <<"X","G">>, Name |-> <<"S","l","o","a","t","s","b","u","r","g">>, ShortName |-> <<"S","l","o","a","t","s","b","u","r","g">>],
    [Code |-> <<"S","M">>, Name |-> <<"S","o","m","e","r","v","i","l","l","e">>, ShortName |-> <<"S","o","m","e","r","v","i","l","l","e">>],
    [Code |-> <<"C","H">>, Name |-> <<"S","o","u","t","h"," ","A","m","b","o","y">>, ShortName |-> <<"S","o","u","t","h"," ","A","m","b","o","y">>],
    [Code |-> <<"S","O">>, Name |-> <<"S","o","u","t","h"," ","O","r","a","n","g","e">>, ShortName |-> <<"S","o","u","t","h"," ","O","r","a","n","g","e">>],
    [Code |-> <<"L","A">>, Name |-> <<"S","p","r","i","n","g"," ","L","a","k","e">>, ShortName |-> <<"S","p","r","i","n","g"," ","L","a","k","e">>],
    [Code |-> <<"S","V">>, Name |-> <<"S","p","r","i","n","g"," ","V","a","l","l","e","y">>, ShortName |-> <<"S","p","r","i","n","g"," ","V","a","l","l","e","y">>],
    [Code |-> <<"S","G">>, Name |-> <<"S","t","i","r","l","i","n","g">>, ShortName |-> <<"S","t","i","r","l","i","n","g">>],
    [Code |-> <<"S","F">>, Name |-> <<"S","u","f","f","e","r","n">>, ShortName |-> <<"S","u","f","f","e","r","n">>],
    [Code |-> <<"S","T">>, Name |-> <<"S","u","m","m","i","t">>, ShortName |-> <<"S","u","m","m","i","t">>],
    [Code |-> <<"T","E">>, Name |-> <<"T","e","t","e","r","b","o","r","o">>, ShortName |-> <<"T","e","t","e","r","b","o","r","o">>],
    [Code |-> <<"T","O">>, Name |-> <<"T","o","w","a","c","o">>, ShortName |-> <<"T","o","w","a","c","o">>],
    [Code |-> <<"T","R">>, Name |-> <<"T","r","e","n","t","o","n">>, ShortName |-> <<"T","r","e","n","t","o","n">>],
    [Code |-> <<"T","C">>, Name |-> <<"T","u","x","e","d","o">>, ShortName |-> <<"T","u","x","e","d","o">>],
    [Code |-> <<"U","S">>, Name |-> <<"U","n","i","o","n">>, ShortName |-> <<"U","n","i","o","n">>],
    [Code |-> <<"U","M">>, Name |-> <<"U","p","p","e","r"," ","M","o","n","t","c","l","a","i","r">>, ShortName |-> <<"U","p","p","."," ","M","o","n","t","c","l","a","i","r">>],
    [Code |-> <<"W","K">>, Name |-> <<"W","a","l","d","w","i","c","k">>, ShortName |-> <<"W","a","l","d","w","i","c","k">>],
    [Code |-> <<"W","A">>, Name |-> <<"W","a","l","n","u","t"," ","S","t","r","e","e","t">>, ShortName |-> <<"W","a","l","n","u","t"," ","S","t","r","e","e","t">>],
    [Code |-> <<"W","S">>, Name |-> <<"W","a","s","h","i","n","g","t","o","n"," ","S","t","a","t","i","o","n">>, ShortName |-> <<"W","a","s","h","i","n","g","t","o","n">>],
    [Code |-> <<"W","G">>, Name |-> <<"W","a","t","c","h","u","n","g"," ","A","v","e","n","u","e">>, ShortName |-> <<"W","a","t","c","h","u","n","g"," ","A","v","e",".">>],
    [Code |-> <<"W","T">>, Name |-> <<"W","a","t","s","e","s","s","i","n","g"," ","A","v","e","n","u","e">>, ShortName |-> <<"W","a","t","s","e","s","s","i","n","g"," ","A","v","e">>],
    [Code |-> <<"2","3">>, Name |-> <<"W","a","y","n","e","-","R","o","u","t","e"," ","2","3">>, ShortName |-> <<"W","a","y","n","e"," ","R","o","u","t","e"," ","2","3">>],
    [Code |-> <<"W","M">>, Name |-> <<"W","e","s","m","o","n","t">>, ShortName |-> <<"W","e","s","m","o","n","t">>],
    [Code |-> <<"W","F">>, Name |-> <<"W","e","s","t","f","i","e","l","d">>, ShortName |-> <<"W","e","s","t","f","i","e","l","d">>],
    [Code |-> <<"W","W">>, Name |-> <<"W","e","s","t","w","o","o","d">>, ShortName |-> <<"W","e","s","t","w","o","o","d">>],
    [Code |-> <<"W","H">>, Name |-> <<"W","h","i","t","e"," ","H","o","u","s","e">>, ShortName |-> <<"W","h","i","t","e"," ","H","o","u","s","e">>],
    [Code |-> <<"W","I">>, Name |-> <<"W","i","l","m","i","n","g","t","o","n"," ","S","t","a","t","i","o","n">>, ShortName |-> <<"W","i","l","m","i","n","g","t","o","n">>],
    [Code |-> <<"W","R">>, Name |-> <<"W","o","o","d"," ","R","i","d","g","e">>, ShortName |-> <<"W","o","o","d","-","R","i","d","g","e">>],
    [Code |-> <<"W","B">>, Name |-> <<"W","o","o","d","b","r","i","d","g","e">>, ShortName |-> <<"W","o","o","d","b","r","i","d","g","e">>],
    [Code |-> <<"W","L">>, Name |-> <<"W","o","o","d","c","l","i","f","f"," ","L","a","k","e">>, ShortName |-> <<"W","o","o","d","c","l","i","f","f"," ","L","a","k","e">>]
>>

\* codes.go: var stationAliases, as the list of its entries.
stationAliases ==
    LET a(code, names) == [Code |-> code, Names |-> names] IN <<
    a(<<"A","C">>, <<<<"A","t","l","a","n","t","i","c"," ","C","i","t","y"," ","T","e","r","m","i","n","a","l">>>>),
    a(<<"B","A">>, <<<<"B",".","W",".","I","."," ","A","i","r","p","o","r","t">>>>),
    a(<<"M","C">>, <<<<"B","a","y"," ","S","t","r","e","e","t"," ","(","M","o","n","t","c","l","a","i","r",")">>>>),
    a(<<"B","F">>, <<<<"B","r","o","a","d","w","a","y">>>>),
    a(<<"C","N">>, <<<<"C","o","n","v","e","n","t">>>>),
    a(<<"E","D">>, <<<<"E","d","i","s","o","n"," ","S","t","a","t","i","o","n">>>>),
    a(<<"F","E">>, <<<<"M","a","n","v","i","l","l","e","-","F","i","n","d","e","r","n","e">>>>),
    a(<<"G","K">>, <<<<"G","l","e","n"," ","R","o","c","k"," ","(","B","o","r","o"," ","H","a","l","l",")">>>>),
    a(<<"R","S">>, <<<<"G","l","e","n"," ","R","o","c","k"," ","(","M","a","i","n"," ","L","i","n","e",")">>>>),
    a(<<"R","M">>, <<<<"H","a","r","r","i","m","a","n"," ","S","t","a","t","i","o","n">>>>),
    a(<<"U","F">>, <<<<"H","o","-","H","o","-","K","u","s">>>>),
    a(<<"M","I">>, <<<<"M","i","d","d","l","e","t","o","w","n">>>>),
    a(<<"M","D">>, <<<<"M","i","d","d","l","e","t","o","w","n",","," ","N","Y">>>>),
    a(<<"U","V">>, <<<<"M","o","n","t","c","l","a","i","r"," ","S","t","a","t","e"," ","U","n","i","v","e","r","s","i","t","y">>>>),
    a(<<"M","T">>, <<<<"M","o","u","n","t","a","i","n"," ","S","t","a",".">>>>),
    a(<<"N","D">>, <<<<"N","e","w","a","r","k"," ","B","r","o","a","d"," ","S","t",".">>, <<"N","e","w","a","r","k"," ","B","r","o","a","d"," ","S","t">>>>),
    a(<<"N","A">>, <<<<"N","e","w","a","r","k"," ","I","n","t","'","l"," ","A","i","r","p","o","r","t">>, <<"N","e","w","a","r","k"," ","A","i","r","p","o","r","t"," ","R","a","i","l","r","o","a","d"," ","S","t","a","t","i","o","n">>>>),
    a(<<"N","Y">>, <<<<"P","e","n","n"," ","S","t","a","t","i","o","n"," ","N","e","w"," ","Y","o","r","k">>>>),
    a(<<"P","N">>, <<<<"P","e","n","n","s","a","u","k","e","n"," ","T","r","a","n","s","i","t"," ","C","e","n","t","e","r">>>>),
    a(<<"P","H">>, <<<<"P","h","i","l","a","d","e","l","p","h","i","a"," ","3","0","t","h"," ","S","t",".">>, <<"3","0","t","h"," ","S","t","."," ","P","h","l",".">>>>),
    a(<<"P","R">>, <<<<"P","r","i","n","c","e","t","o","n"," ","S","t","a","t","i","o","n">>>>),
    a(<<"F","Z">>, <<<<"R","a","d","b","u","r","n">>>>),
    a(<<"1","7">>, <<<<"R","o","u","t","e"," ","1","7"," ","S","t","a","t","i","o","n">>, <<"R","a","m","s","e","y"," ","R","o","u","t","e"," ","1","7"," ","S","t","a","t","i","o","n">>>>),
    a(<<"C","W">>, <<<<"S","a","l","i","s","b","u","r","y"," ","M","i","l","l","s">>>>),
    a(<<"T","S">>, <<<<"S","e","c","a","u","c","u","s"," ","J","u","n","c","t","i","o","n">>, <<"F","r","a","n","k"," ","R"," ","L","a","u","t","e","n","b","e","r","g"," ","S","e","c","a","u","c","u","s"," ","L","o","w","e","r"," ","L","e","v","e","l">>>>),
    a(<<"S","E">>, <<<<"S","e","c","a","u","c","u","s"," ","S","t","a","t","i","o","n">>, <<"F","r","a","n","k"," ","R"," ","L","a","u","t","e","n","b","e","r","g"," ","S","e","c","a","u","c","u","s"," ","U","p","p","e","r"," ","L","e","v","e","l">>>>),
    a(<<"T","R">>, <<<<"T","r","e","n","t","o","n"," ","S","t","a","t","i","o","n">>, <<"T","r","e","n","t","o","n"," ","T","r","a","n","s","i","t"," ","C","e","n","t","e","r">>>>),
    a(<<"U","S">>, <<<<"U","n","i","o","n"," ","S","t","a","t","i","o","n">>>>),
    a(<<"W","A">>, <<<<"W","a","l","n","u","t"," ","S","t","r","e","e","t"," ","(","M","o","n","t","c","l","a","i","r",")">>>>),
    a(<<"W","T">>, <<<<"W","a","t","s","e","s","s","i","n","g"," ","A","v","e","n","u","e"," ","(","B","l","o","o","m","f","i","e","l","d",")">>>>),
    a(<<"2","3">>, <<<<"W","a","y","n","e","/","R","o","u","t","e"," ","2","3"," ","T","r","a","n","s","i","t"," ","C","e","n","t","e","r"," ","[","R","R","]">>>>)
    >>

\* codes.go: var Lines, without the colors.
Lines == <<
    [Code |-> <<"A","C">>, Name |-> <<"A","t","l","a","n","t","i","c"," ","C","i","t","y"," ","L","i","n","e">>, Abbreviation |-> <<"A","C","R","L">>,
     OtherAbbrs |-> <<<<"A","T","L","C">>>>],
    [Code |-> <<"M","C">>, Name |-> <<"M","o","n","t","c","l","a","i","r","-","B","o","o","n","t","o","n"," ","L","i","n","e">>, Abbreviation |-> <<"M","O","B","O">>,
     OtherAbbrs |-> <<<<"B","N","T","N">>, <<"B","N","T","N","M">>, <<"M","N","B","T","N">>>>],
    [Code |-> <<"B","C">>, Name |-> <<"B","e","r","g","e","n"," ","C","o","u","n","t","y"," ","L","i","n","e">>, Abbreviation |-> <<"B","E","R","G">>,
     OtherAbbrs |-> <<<<"M","N","B","N">>>>],
    [Code |-> <<"M","L">>, Name |-> <<"M","a","i","n"," ","L","i","n","e">>, Abbreviation |-> <<"M","A","I","N">>,
     OtherAbbrs |-> <<<<"M","N","B","N">>>>],
    [Code |-> <<"M","E">>, Name |-> <<"M","o","r","r","i","s"," ","&"," ","E","s","s","e","x"," ","L","i","n","e">>, Abbreviation |-> <<"M","&","E">>,
     OtherAbbrs |-> <<<<"M","N","E">>>>],
    [Code |-> <<"G","S">>, Name |-> <<"G","l","a","d","s","t","o","n","e"," ","B","r","a","n","c","h">>, Abbreviation |-> <<"M","&","E">>,
     OtherAbbrs |-> <<<<"M","N","E","G">>>>],
    [Code |-> <<"N","E">>, Name |-> <<"N","o","r","t","h","e","a","s","t"," ","C","o","r","r","i","d","o","r"," ","L","i","n","e">>, Abbreviation |-> <<"N","E","C">>,
     OtherAbbrs |-> <<>>],
    [Code |-> <<"N","C">>, Name |-> <<"N","o","r","t","h"," ","J","e","r","s","e","y"," ","C","o","a","s","t"," ","L","i","n","e">>, Abbreviation |-> <<"N","J","C","L">>,
     OtherAbbrs |-> <<<<"N","J","C","L","L">>>>],
    [Code |-> <<"P","V">>, Name |-> <<"P","a","s","c","a","c","k"," ","V","a","l","l","e","y"," ","L","i","n","e">>, Abbreviation |-> <<"P","A","S","C">>,
     OtherAbbrs |-> <<>>],
    [Code |-> <<"P","R">>, Name |-> <<"P","r","i","n","c","e","t","o","n"," ","B","r","a","n","c","h">>, Abbreviation |-> <<"P","R","I","N">>,
     OtherAbbrs |-> <<>>],
    [Code |-> <<"R","V">>, Name |-> <<"R","a","r","i","t","a","n"," ","V","a","l","l","e","y"," ","L","i","n","e">>, Abbreviation |-> <<"R","A","R","V">>,
     OtherAbbrs |-> <<>>],
    [Code |-> <<"S","L">>, Name |-> <<"B","e","t","M","G","M"," ","M","e","a","d","o","w","l","a","n","d","s">>, Abbreviation |-> <<"B","M","G","M">>,
     OtherAbbrs |-> <<>>],
    [Code |-> <<"A","M">>, Name |-> <<"A","m","t","r","a","k">>, Abbreviation |-> <<"A","M","T","K">>,
     OtherAbbrs |-> <<>>],
    [Code |-> <<"S","P">>, Name |-> <<"S","e","p","t","a">>, Abbreviation |-> <<"S","E","P","T","A">>,
     OtherAbbrs |-> <<>>]
>>

\* codes.go: var lineAliases, as the list of its entries.
lineAliases ==
    LET a(code, names) == [Code |-> code, Names |-> names] IN <<
    a(<<"A","C">>, <<<<"A","t","l","a","n","t","i","c"," ","C","i","t","y"," ","R","a","i","l"," ","L","i","n","e">>, <<"A","t","l","."," ","C","i","t","y"," ","L","i","n","e">>>>),
    a(<<"M","C">>, <<<<"M","o","n","t","c","l","a","i","r","-","B","o","o","n","t","o","n">>>>),
    a(<<"B","C">>, <<<<"M","a","i","n","/","B","e","r","g","e","n"," ","C","o","u","n","t","y"," ","L","i","n","e">>, <<"B","e","r","g","e","n"," ","C","o","."," ","L","i","n","e">>>>),
    a(<<"M","L">>, <<<<"P","o","r","t"," ","J","e","r","v","i","s"," ","L","i","n","e">>>>),
    a(<<"M","E">>, <<<<"M","o","r","r","i","s","t","o","w","n"," ","L","i","n","e">>>>),
    a(<<"N","E">>, <<<<"N","o","r","t","h","e","a","s","t"," ","C","o","r","r","i","d","o","r">>, <<"N","o","r","t","h","e","a","s","t"," ","C","o","r","r","d","r">>>>),
    a(<<"N","C">>, <<<<"N","o"," ","J","e","r","s","e","y"," ","C","o","a","s","t">>>>),
    a(<<"P","V">>, <<<<"P","a","s","c","a","c","k"," ","V","a","l","l","e","y">>>>),
    a(<<"P","R">>, <<<<"P","r","i","n","c","e","t","o","n"," ","S","h","u","t","t","l","e">>>>),
    a(<<"R","V">>, <<<<"R","a","r","i","t","a","n"," ","V","a","l","l","e","y">>>>)
    >>

\* aliases[code] of a Go map: the names registered for the code, nil if none.
AliasesOf(aliases, code) ==
    IF \E i \in 1..Len(aliases) : aliases[i].Code = code
    THEN aliases[CHOOSE i \in 1..Len(aliases) : aliases[i].Code = code].Names
    ELSE <<>>

\* The map makeMmap's loop makes of the elements input[lo] to input[hi]:
\* keys[i] is getKeys(&input[i]), the pointer &input[i] is the index i, and
\* an assignment to a key replaces the earlier ones.
\* makeMmap if a key already in the map were kept.
RECURSIVE makeMmapRange_FirstWins(_, _, _)
makeMmapRange_FirstWins(keys, lo, hi) ==
    IF lo > hi THEN <<>>
    ELSE IF lo = hi THEN [k \in {ToLower(keys[lo][j]) : j \in 1..Len(keys[lo])} |-> lo]
    ELSE makeMmapRange_FirstWins(keys, lo, (lo + hi) \div 2)
             @@ makeMmapRange_FirstWins(keys, (lo + hi) \div 2 + 1, hi)

RECURSIVE makeMmapRange(_, _, _)
makeMmapRange(keys, lo, hi) ==
    IF lo > hi THEN <<>>
    ELSE IF lo = hi THEN [k \in {ToLower(keys[lo][j]) : j \in 1..Len(keys[lo])} |-> lo]
    ELSE makeMmapRange(keys, (lo + hi) \div 2 + 1, hi)
             @@ makeMmapRange(keys, lo, (lo + hi) \div 2)

makeMmap(keys) == makeMmapRange(keys, 1, Len(keys))

makeMap_FirstKey(key) == makeMmap([i \in 1..Len(key) |-> <<key[1]>>])

\* makeMap: one key for each element.
makeMap(key) == makeMmap([i \in 1..Len(key) |-> <<key[i]>>])

\* getCandidates of the two finders.
getCandidates(type, s) ==
    IF type = "Station" THEN <<s.Name, s.ShortName>>
    ELSE <<s.Name, s.Abbreviation>>

\* The finderImpl FindStation builds, over a list of stations and their
\* aliases: the maps are those of stationsByCode, stationsByName and
\* stationsByShortName.
stationFinder(stations, aliases) ==
    [type |-> "Station",
     byCode |-> makeMap([i \in 1..Len(stations) |-> stations[i].Code]),
     byName |-> makeMmap([i \in 1..Len(stations) |->
                    <<stations[i].Name>> \o AliasesOf(aliases, stations[i].Code)]),
     byAbbr |-> makeMap([i \in 1..Len(stations) |-> stations[i].ShortName]),
     list |-> stations,
     candidates |-> [i \in 1..Len(stations) |-> getCandidates("Station", stations[i])]]

\* The finderImpl FindLine builds, over a list of lines and their aliases:
\* the maps are those of linesByCode, linesByName and linesByAbbreviation.
lineFinder(lines, aliases) ==
    [type |-> "Line",
     byCode |-> makeMap([i \in 1..Len(lines) |-> lines[i].Code]),
     byName |-> makeMmap([i \in 1..Len(lines) |->
                    <<lines[i].Name>> \o AliasesOf(aliases, lines[i].Code)]),
     byAbbr |-> makeMmap([i \in 1..Len(lines) |->
                    <<lines[i].Abbreviation>> \o lines[i].OtherAbbrs]),
     list |-> lines,
     candidates |-> [i \in 1..Len(lines) |-> getCandidates("Line", lines[i])]]

FindStation == stationFinder(Stations, stationAliases)
FindLine == lineFinder(Lines, lineAliases)

stationsByCode == FindStation.byCode
stationsByName == FindStation.byName
stationsByShortName == FindStation.byAbbr
linesByCode == FindLine.byCode
linesByName == FindLine.byName
linesByAbbreviation == FindLine.byAbbr

\* One cell of fuzzyMatch's table: above is the row above and row the cells
\* of this row filled so far (above[1] and row[1] are column 0).
fuzzyCell_FromLeft(same, above, row, col) ==
    LET m == IF same THEN 1 + row[col] ELSE 0
    IN Max(Max(m, above[col + 1]), Max(row[col], above[col]))

fuzzyCell(same, above, row, col) ==
    LET m == IF same THEN 1 + above[col] ELSE 0
    IN Max(Max(m, above[col + 1]), Max(row[col], above[col]))

\* fuzzyMatch's inner loop: a row of the table, from column Len(row) on.
RECURSIVE fuzzyRow(_, _, _, _)
fuzzyRow(input, ch, above, row) ==
    IF Len(row) > Len(input) THEN row
    ELSE fuzzyRow(input, ch, above,
                  Append(row, fuzzyCell(input[Len(row)] = ch, above, row, Len(row))))

\* fuzzyMatch's outer loop: the rows of the table, from row Len(rows) on.
RECURSIVE fuzzyRows(_, _, _)
fuzzyRows(input, candidate, rows) ==
    IF Len(rows) > Len(candidate) THEN rows
    ELSE fuzzyRows(input, candidate,
                   Append(rows, fuzzyRow(input, candidate[Len(rows)], rows[Len(rows)], <<0>>)))

\* fuzzyMatch: the last cell of the table, whose row 0 is all zeros.
fuzzyMatch(input, candidate) ==
    fuzzyRows(input, candidate,
              <<[c \in 1..(Len(input) + 1) |-> 0]>>)[Len(candidate) + 1][Len(input) + 1]

\* fuzzyFind's test for replacing the best match.
Better_OrEqual(ml, len, matchLen, strLen) ==
    ml > matchLen \/ (ml = matchLen /\ len <= strLen)

Better(ml, len, matchLen, strLen) ==
    ml > matchLen \/ (ml = matchLen /\ len < strLen)

\* fuzzyFind's inner loop from candidate j of list[acc.i] on; acc holds
\* the index i of the outer loop with best, matchLen and strLen.
RECURSIVE fuzzyFindItem(_, _, _, _)
fuzzyFindItem(acc, input, candidates, j) ==
    IF j > Len(candidates) THEN [acc EXCEPT !.i = @ + 1]
    ELSE LET candidate == ToLower(candidates[j])
             ml == fuzzyMatch(input, candidate)
         IN fuzzyFindItem(IF Better(ml, Len(candidate), acc.matchLen, acc.strLen)
                          THEN [i |-> acc.i, best |-> acc.i,
                                matchLen |-> ml, strLen |-> Len(candidate)]
                          ELSE acc,
                          input, candidates, j + 1)

\* fuzzyFind's outer loop from list[acc.i] to list[last].
RECURSIVE fuzzyFindFrom(_, _, _, _)
fuzzyFindFrom(acc, input, candidates, last) ==
    IF acc.i > last THEN acc
    ELSE fuzzyFindFrom(fuzzyFindItem(acc, input, candidates[acc.i], 1),
                       input, candidates, last)

\* fuzzyFind's outer loop from list[acc.i] on, sixteen elements at a time.
RECURSIVE fuzzyFindAll(_, _, _)
fuzzyFindAll(acc, input, candidates) ==
    IF acc.i > Len(candidates) THEN acc
    ELSE fuzzyFindAll(fuzzyFindFrom(acc, input, candidates,
                                    Min(acc.i + 15, Len(candidates))),
                      input, candidates)

\* fuzzyFind: best is an index of the list, 0 for nil.
fuzzyFind(input, candidates) ==
    LET r == fuzzyFindAll([i |-> 1, best |-> 0, matchLen |-> 0, strLen |-> 0],
                          input, candidates)
    IN [best |-> r.best, matchLen |-> r.matchLen]

\* Search's test on the fuzzy match.
Accepts_AnyLength(matchLen, nameLc) == matchLen > 2

Accepts(matchLen, nameLc) == matchLen > 2 /\ matchLen >= Len(nameLc) \div 4

NotFound == [item |-> 0, found |-> FALSE]

\* Search's steps on the name.
SearchName_AbbrFirst(f, name) ==
    LET nameLc == ToLower(name)
        fuzzy == fuzzyFind(nameLc, f.candidates)
    IN IF nameLc \in DOMAIN f.byAbbr THEN [item |-> f.byAbbr[nameLc], found |-> TRUE]
       ELSE IF nameLc \in DOMAIN f.byName THEN [item |-> f.byName[nameLc], found |-> TRUE]
       ELSE IF Accepts(fuzzy.matchLen, nameLc) THEN [item |-> fuzzy.best, found |-> TRUE]
       ELSE NotFound

SearchName(f, name) ==
    LET nameLc == ToLower(name)
        fuzzy == fuzzyFind(nameLc, f.candidates)
    IN IF nameLc \in DOMAIN f.byName THEN [item |-> f.byName[nameLc], found |-> TRUE]
       ELSE IF nameLc \in DOMAIN f.byAbbr THEN [item |-> f.byAbbr[nameLc], found |-> TRUE]
       ELSE IF Accepts(fuzzy.matchLen, nameLc) THEN [item |-> fuzzy.best, found |-> TRUE]
       ELSE NotFound

\* The key Search looks the code up by.
CodeKey_AsGiven(code) == code

CodeKey(code) == ToLower(code)

\* Search if a code that is given and unknown ended the search.
Search_CodeOnly(f, code, name) ==
    IF code # <<>>
    THEN IF CodeKey(code[1]) \in DOMAIN f.byCode
         THEN [item |-> f.byCode[CodeKey(code[1])], found |-> TRUE]
         ELSE NotFound
    ELSE IF name # <<>> THEN SearchName(f, name[1])
    ELSE NotFound

\* Search if it looked the name up before the code.
Search_NameFirst(f, code, name) ==
    IF name # <<>> /\ SearchName(f, name[1]).found THEN SearchName(f, name[1])
    ELSE IF code # <<>> /\ CodeKey(code[1]) \in DOMAIN f.byCode
    THEN [item |-> f.byCode[CodeKey(code[1])], found |-> TRUE]
    ELSE NotFound

\* finderImpl.Search of the finder f with the code and the name set.
Search(f, code, name) ==
    IF code # <<>> /\ CodeKey(code[1]) \in DOMAIN f.byCode
    THEN [item |-> f.byCode[CodeKey(code[1])], found |-> TRUE]
    ELSE IF name # <<>> THEN SearchName(f, name[1])
    ELSE NotFound

Prefix(s, n) == SubSeq(s, 1, n)

\* The synthesize functions of FindStation and FindLine.
synthesizeCode(code) == IF code = <<>> THEN <<"X","X">> ELSE code[1]

synthesizeName(code, name) ==
    IF name = <<>> THEN <<"U","n","k","n","o","w","n"," ">> \o synthesizeCode(code)
    ELSE name[1]

ShortNameLen_Whole(name) == Len(name)

ShortNameLen(name) == Min(14, Len(name))

LineAbbreviation_Code(code) == code

LineAbbreviation(code) == <<"X","X">> \o code

synthesize(type, code, name) ==
    IF type = "Station"
    THEN [Code |-> synthesizeCode(code),
          Name |-> synthesizeName(code, name),
          ShortName |-> Prefix(synthesizeName(code, name),
                               ShortNameLen(synthesizeName(code, name)))]
    ELSE [Code |-> synthesizeCode(code),
          Name |-> synthesizeName(code, name),
          Abbreviation |-> LineAbbreviation(synthesizeCode(code)),
          OtherAbbrs |-> <<>>]

\* finderImpl.SearchOrSynthesize:
\* entity is what it returns; item and found are what its call of Search returned.
SearchOrSynthesize(f, code, name) ==
    LET r == Search(f, code, name)
    IN [item |-> r.item, found |-> r.found,
        entity |-> IF r.found THEN f.list[r.item] ELSE synthesize(f.type, code, name)]


\* The finderImpl a finder value stands for: the one of FindStation or of
\* FindLine over the package's catalogs, or one over a given list.
Impl(fd) ==
    IF fd.new = "FindStation" THEN FindStation
    ELSE IF fd.new = "FindLine" THEN FindLine
    ELSE IF fd.type = "Station" THEN stationFinder(fd.list, fd.aliases)
    ELSE lineFinder(fd.list, fd.aliases)

\* The upper/lower-case variants of a string.
RECURSIVE CaseVariants(_)
CaseVariants(s) ==
    IF s = <<>> THEN {<<>>}
    ELSE LET first == {s[1]} \cup {Lower[i] : i \in {j \in 1..26 : s[1] \in {Lower[j], Upper[j]}}}
                             \cup {Upper[i] : i \in {j \in 1..26 : s[1] \in {Lower[j], Upper[j]}}}
         IN {<<ch>> \o rest : ch \in first, rest \in CaseVariants(Tail(s))}

\* Codes and names given to the finders of the package's catalogs.
UnknownCodes == {<<"X","Y">>, <<>>}

StationCodeInputs ==
    UNION {CaseVariants(Stations[i].Code) : i \in 1..Len(Stations)} \cup UnknownCodes

LineCodeInputs ==
    UNION {CaseVariants(Lines[i].Code) : i \in 1..Len(Lines)}
        \cup UnknownCodes \cup {<<"X","X","X","Y">>}

StationNameInputs ==
    {<<"b","w","i"," ","t","h","u","r","g","o","o","d"," ","m","a","r","s","h","a","l","l"," ","a","i","r","p","o","r","t">>,
     <<"b","e","r","k","e","l","e","y"," ","h","t","s">>,
     <<"H","O","-","H","O","-","K","U","S">>,
     <<"S","e","c","a","u","c","u","s">>,
     <<>>,
     <<"N","e","w","w","a","r","k">>,
     <<"B",".","W",".">>,
     <<"1","2","3","4","5","6","7","8","9","0","1","2","3","4","5">>}

LineNameInputs ==
    {<<"m","o","b","o">>,
     <<"m","n","e">>,
     <<"M","N","B","N">>,
     <<"M","&","E">>,
     <<"N","O","R","T","H","E","A","S","T"," ","C","O","R","R","D","R">>,
     <<"P","o","r","t"," ","J","e","r","v","i","s"," ","L","i","n","e">>,
     <<"P","o","r","t"," ","J","e","r","v","i","s"," ","L","i","n">>,
     <<>>,
     <<"X","X","X","X">>,
     <<"1","2","3","4","5","6","7","8","9","0","1","2","3","4","5","6","7","8","9","0">>}

\* Stations for finders over short lists: the names, short names and aliases
\* a station is made of.
TestNames == {<<"A","b","c">>, <<"A","b","c","d">>, <<"B","c","d">>}
TestShortNames == {<<>>, <<"A","b","c">>}
TestAliases == {<<>>, <<<<"X","y","z">>>>}

TestStations ==
    [Name : TestNames, ShortName : TestShortNames, Aliases : TestAliases]

\* The names and aliases of a station, lower-cased: its keys in byName.
NameKeys(s) == {ToLower(s.Name)} \cup {ToLower(s.Aliases[j]) : j \in 1..Len(s.Aliases)}

\* The lists of one or two of them in which, as in Stations, no name or alias
\* is registered for two entries.
TestLists ==
    {<<s>> : s \in TestStations}
        \cup {<<p[1], p[2]>> : p \in {q \in TestStations \X TestStations :
                                            NameKeys(q[1]) \cap NameKeys(q[2]) = {}}}

\* The list and the alias map of a list of them: the codes are S1, S2.
TestCode(i) == IF i = 1 THEN <<"S","1">> ELSE <<"S","2">>

TestFinder(l) ==
    [new |-> "finderImpl", type |-> "Station",
     list |-> [i \in 1..Len(l) |->
                  [Code |-> TestCode(i), Name |-> l[i].Name, ShortName |-> l[i].ShortName]],
     aliases |-> [i \in 1..Len(l) |-> [Code |-> TestCode(i), Names |-> l[i].Aliases]],
     code |-> <<>>, name |-> <<>>]

\* The longest run of characters of no candidate that follows a query.
MaxPad == 13

Pad(s, k) == s \o [i \in 1..k |-> "q"]

\* Names given to the finders over short lists.
TestNameInputs ==
    {<<"a","b","c">>, <<"A","B","C">>, <<"b","c">>, <<"x","y","z">>, <<"x","y","z","q">>,
     <<"B","C","D","A">>, <<"q","q","q">>, <<>>}
        \cup {Pad(<<"a","b">>, k) : k \in 1..MaxPad}
        \cup {Pad(<<"A","b","c">>, k) : k \in 1..MaxPad}

CodeInputs(fd) ==
    IF fd.new = "FindStation" THEN StationCodeInputs
    ELSE IF fd.new = "FindLine" THEN LineCodeInputs
    ELSE {<<"s","1">>}

NameInputs(fd) ==
    IF fd.new = "FindStation" THEN StationNameInputs
    ELSE IF fd.new = "FindLine" THEN LineNameInputs
    ELSE TestNameInputs

\* FindStation() or FindLine(): no code and no name set yet.
InitFind ==
    /\ NewClient
    /\ credentials = FALSE
    /\ httpResponse = NoResponse
    /\ parsed = Unparsed
    /\ finder \in {[new |-> "FindStation", type |-> "Station", list |-> <<>>, aliases |-> <<>>,
                    code |-> <<>>, name |-> <<>>],
                   [new |-> "FindLine", type |-> "Line", list |-> <<>>, aliases |-> <<>>,
                    code |-> <<>>, name |-> <<>>]}
    /\ result = NoResult
    /\ Colorless
    /\ Matchless
    /\ Frameless

clientVars == <<credentials, token, tokenMutex, tokenUpdateListeners, spawned, stores, pc, tok,
                sent, res1, rerr, gets, gres, out, res2, ret, requested, calls,
                ran, panicked, saved, httpResponse, parsed, got>>

\* finderImpl.WithCode
WithCode(code) ==
    /\ finder.new # "none"
    /\ finder.code = <<>>
    /\ result = NoResult
    /\ finder' = [finder EXCEPT !.code = <<code>>]
    /\ UNCHANGED <<clientVars, pureVars, got, result>>

\* finderImpl.WithName
WithName(name) ==
    /\ finder.new # "none"
    /\ finder.name = <<>>
    /\ result = NoResult
    /\ finder' = [finder EXCEPT !.name = <<name>>]
    /\ UNCHANGED <<clientVars, pureVars, got, result>>

\* A call of finderImpl.Search
CallSearch ==
    /\ finder.new # "none"
    /\ result = NoResult
    /\ LET r == Search(Impl(finder), finder.code, finder.name)
       IN result' = <<[op |-> "Search", item |-> r.item, found |-> r.found, entity |-> <<>>]>>
    /\ UNCHANGED <<clientVars, pureVars, got, finder>>

\* A call of finderImpl.SearchOrSynthesize
CallSearchOrSynthesize ==
    /\ finder.new # "none"
    /\ result = NoResult
    /\ LET r == SearchOrSynthesize(Impl(finder), finder.code, finder.name)
       IN result' = <<[op |-> "SearchOrSynthesize", item |-> r.item, found |-> r.found,
                       entity |-> <<r.entity>>]>>
    /\ UNCHANGED <<clientVars, pureVars, got, finder>>

\* The finders of the package's catalogs, given codes and names and searched.
NextFind ==
    \/ \E code \in CodeInputs(finder) : WithCode(code)
    \/ \E name \in NameInputs(finder) : WithName(name)
    \/ CallSearch
    \/ CallSearchOrSynthesize

SpecFind == InitFind /\ [][NextFind]_vars

\* A call of fuzzyFind as Search makes it, on the lower-cased name.
CallFuzzyFind ==
    /\ finder.new # "none"
    /\ finder.name # <<>>
    /\ result = NoResult
    /\ LET r == fuzzyFind(ToLower(finder.name[1]), Impl(finder).candidates)
       IN result' = <<[op |-> "fuzzyFind", item |-> r.best, found |-> r.best # 0,
                       entity |-> <<>>, matchLen |-> r.matchLen]>>
    /\ UNCHANGED <<clientVars, pureVars, got, finder>>

\* A finderImpl over a short list of stations: no code and no name set yet.
InitFuzzy ==
    /\ NewClient
    /\ credentials = FALSE
    /\ httpResponse = NoResponse
    /\ parsed = Unparsed
    /\ finder \in {TestFinder(l) : l \in TestLists}
    /\ result = NoResult
    /\ Colorless
    /\ Matchless
    /\ Frameless

\* The finders over short lists, given codes and names and searched.
NextFuzzy ==
    \/ NextFind
    \/ CallFuzzyFind

SpecFuzzy == InitFuzzy /\ [][NextFuzzy]_vars

\* ------------------------------------------------------- values of a finder
\* The finderImpl values a caller makes from the one a Find function returned:
\* each holds its own code and name and the list and maps of the catalog,
\* which all of them share.
MaxFinders == 3
MaxSearches == 2
FrameLists == {l \in TestLists : Len(l) = 1 /\ l[1].Aliases = <<>>}
FrameCodes == {<<"s","1">>, <<"z","z">>}
FrameNames == {<<"A","B","C">>, <<"q","q","q">>}

InitFrame ==
    /\ NewClient
    /\ credentials = FALSE
    /\ httpResponse = NoResponse
    /\ parsed = Unparsed
    /\ finder = NoFinder
    /\ result = NoResult
    /\ Colorless
    /\ Matchless
    /\ catalog \in {<<stationFinder(TestFinder(l).list, TestFinder(l).aliases)>> : l \in FrameLists}
    /\ finders = <<[code |-> <<>>, name |-> <<>>]>>

\* finderImpl.WithCode called on the value finders[i]: f is a copy of it.
WithCodeOf(i, code) ==
    /\ Len(finders) < MaxFinders
    /\ LET f == [finders[i] EXCEPT !.code = <<code>>]
       IN finders' = Append(finders, f)
    /\ UNCHANGED <<clientVars, finder, result, colorVars, matchVars, catalog>>

\* finderImpl.WithName called on the value finders[i]: f is a copy of it.
WithNameOf(i, name) ==
    /\ Len(finders) < MaxFinders
    /\ LET f == [finders[i] EXCEPT !.name = <<name>>]
       IN finders' = Append(finders, f)
    /\ UNCHANGED <<clientVars, finder, result, colorVars, matchVars, catalog>>

\* finderImpl.Search called on the value finders[i]
SearchOf(i) ==
    /\ Len(result) < MaxSearches
    /\ LET r == Search(catalog[1], finders[i].code, finders[i].name)
       IN result' = Append(result, [op |-> "Search", of |-> i, item |-> r.item,
                                    found |-> r.found, entity |-> <<>>])
    /\ UNCHANGED <<clientVars, finder, colorVars, matchVars, catalog, finders>>

\* SearchOrSynthesize if it added the entity it made to the list and to byCode.
SearchOrSynthesizeOf_Adds(i) ==
    /\ Len(result) < MaxSearches
    /\ LET r == SearchOrSynthesize(catalog[1], finders[i].code, finders[i].name)
       IN /\ result' = Append(result, [op |-> "SearchOrSynthesize", of |-> i, item |-> r.item,
                                       found |-> r.found, entity |-> <<r.entity>>])
          /\ catalog' = IF r.found THEN catalog
                        ELSE <<[catalog[1] EXCEPT
                                   !.list = Append(@, r.entity),
                                   !.byCode = (ToLower(r.entity.Code) :> (Len(catalog[1].list) + 1)) @@ @]>>
    /\ UNCHANGED <<clientVars, finder, colorVars, matchVars, finders>>

\* finderImpl.SearchOrSynthesize called on the value finders[i]
SearchOrSynthesizeOf(i) ==
    /\ Len(result) < MaxSearches
    /\ LET r == SearchOrSynthesize(catalog[1], finders[i].code, finders[i].name)
       IN result' = Append(result, [op |-> "SearchOrSynthesize", of |-> i, item |-> r.item,
                                    found |-> r.found, entity |-> <<r.entity>>])
    /\ UNCHANGED <<clientVars, finder, colorVars, matchVars, catalog, finders>>

NextFrame ==
    \/ \E i \in 1..Len(finders), code \in FrameCodes : WithCodeOf(i, code)
    \/ \E i \in 1..Len(finders), name \in FrameNames : WithNameOf(i, name)
    \/ \E i \in 1..Len(finders) : SearchOf(i)
    \/ \E i \in 1..Len(finders) : SearchOrSynthesizeOf(i)

SpecFrame == InitFrame /\ [][NextFrame]_vars

\* -------------------------------------------------------------- fuzzyMatch
\* fuzzyMatch applied on its own to every two strings of at most MaxStr
\* characters of MatchChars.
MaxStr == 4
MatchChars == {"a", "b", "c"}
MatchStrings == UNION {[1..n -> MatchChars] : n \in 0..MaxStr}

InitMatch ==
    /\ NewClient
    /\ credentials = FALSE
    /\ httpResponse = NoResponse
    /\ parsed = Unparsed
    /\ finder = NoFinder
    /\ result = NoResult
    /\ Colorless
    /\ matchArgs \in {<<[input |-> s, candidate |-> t]>> : s \in MatchStrings, t \in MatchStrings}
    /\ matchResult = NoMatch
    /\ Frameless

\* A call of fuzzyMatch
CallFuzzyMatch ==
    /\ matchArgs # NoMatch
    /\ matchResult = NoMatch
    /\ matchResult' = <<fuzzyMatch(matchArgs[1].input, matchArgs[1].candidate)>>
    /\ UNCHANGED <<clientVars, finder, result, colorVars, matchArgs, frameVars>>

SpecMatch == InitMatch /\ [][CallFuzzyMatch]_vars

\* ------------------------------------------------------------------- color
\* encoding/hex: the digits it writes and the digits it reads.
HexTable == <<"0","1","2","3","4","5","6","7","8","9","a","b","c","d","e","f">>
UpperHex == <<"A","B","C","D","E","F">>
IsHex(ch) == (\E i \in 1..16 : HexTable[i] = ch) \/ (\E i \in 1..6 : UpperHex[i] = ch)
fromHexChar(ch) ==
    IF \E i \in 1..16 : HexTable[i] = ch THEN (CHOOSE i \in 1..16 : HexTable[i] = ch) - 1
    ELSE (CHOOSE i \in 1..6 : UpperHex[i] = ch) + 9

\* hex.Decode of six digits into three bytes
Decode(hexBytes) ==
    IF \E i \in 1..6 : ~IsHex(hexBytes[i]) THEN [err |-> "invalid byte", rgb |-> <<0, 0, 0>>]
    ELSE [err |-> "nil",
          rgb |-> [i \in 1..3 |-> 16 * fromHexChar(hexBytes[2 * i - 1]) + fromHexChar(hexBytes[2 * i])]]

\* hex.AppendEncode(dst, rgb)
AppendEncode(dst, rgb) ==
    dst \o <<HexTable[(rgb[1] \div 16) + 1], HexTable[(rgb[1] % 16) + 1],
             HexTable[(rgb[2] \div 16) + 1], HexTable[(rgb[2] % 16) + 1],
             HexTable[(rgb[3] \div 16) + 1], HexTable[(rgb[3] % 16) + 1]>>

\* Color{}, err
ColorError(err) == [err |-> err, rgb |-> <<0, 0, 0>>]

ParseHtmlColor(s) ==
    IF Len(s) = 0 \/ s[1] # "#" THEN ColorError("color specification does not start with #")
    ELSE IF Len(s) = 4 THEN Decode(<<s[2], s[2], s[3], s[3], s[4], s[4]>>)
    ELSE IF Len(s) = 7 THEN Decode(SubSeq(s, 2, 7))
    ELSE ColorError("color specification does not have the correct length")

\* Color.Html: dst[0:2], dst[2:4] and dst[4:6] of "#" followed by six digits,
\* after a "#".
Html(c) ==
    LET dst == AppendEncode(<<"#">>, c.rgb)
    IN <<"#">> \o SubSeq(dst, 1, 2) \o SubSeq(dst, 3, 4) \o SubSeq(dst, 5, 6)

\* Color.RGB
RGB(c) == c.rgb

\* The color specifications parsed: "#" and three or six of these digits
\* ("g" is no hexadecimal digit), and the strings of TestColor.
ColorDigits == {"0", "9", "a", "F", "g"}
ColorSpecs ==
    {<<"#">> \o d : d \in [1..6 -> ColorDigits]} \cup {<<"#">> \o d : d \in [1..3 -> ColorDigits]}
    \cup {<<"#","1","2","3","d","e","f">>, <<"#","F","7","1">>, <<"#","F","7","1","1">>,
          <<"1","2","3","d","e","f">>, <<"1","2","3","d">>, <<"#">>}

InitColor ==
    /\ NewClient
    /\ credentials = FALSE
    /\ httpResponse = NoResponse
    /\ parsed = Unparsed
    /\ finder = NoFinder
    /\ result = NoResult
    /\ colorSpec \in ColorSpecs
    /\ color = NoColor
    /\ rendered = NoRendered
    /\ Matchless
    /\ Frameless

\* A call of ParseHtmlColor
CallParseHtmlColor ==
    /\ colorSpec # <<>>
    /\ color = NoColor
    /\ color' = <<ParseHtmlColor(colorSpec)>>
    /\ UNCHANGED <<clientVars, finder, result, colorSpec, rendered, matchVars, frameVars>>

\* A call of Html on the Color that was parsed
CallHtml ==
    /\ color # NoColor
    /\ color[1].err = "nil"
    /\ rendered.html = <<>>
    /\ rendered' = [rendered EXCEPT !.html = <<Html(color[1])>>]
    /\ UNCHANGED <<clientVars, finder, result, colorSpec, color, matchVars, frameVars>>

\* A call of RGB on the Color that was parsed
CallRGB ==
    /\ color # NoColor
    /\ color[1].err = "nil"
    /\ rendered.rgb = <<>>
    /\ rendered' = [rendered EXCEPT !.rgb = <<RGB(color[1])>>]
    /\ UNCHANGED <<clientVars, finder, result, colorSpec, color, matchVars, frameVars>>

NextColor ==
    \/ CallParseHtmlColor
    \/ CallHtml
    \/ CallRGB

SpecColor == InitColor /\ [][NextColor]_vars

\* ------------------------------------------------------------------ claims
Done(c) == pc[c] = "done"
Observed(c) == sent[c][1]

\* The refresh storm: every caller made one call, all carried the same token in
\* their first request, all got InvalidToken, every getToken exchange was
\* answered Authenticated "True" with a token other than the stale one, and
\* every retry was answered with a valid document.
C1_Storm ==
    /\ credentials
    /\ calls = NumCallers
    /\ \A c \in Callers : Done(c)
    /\ \A c \in Callers :
         /\ Observed(c) = Observed(1)
         /\ res1[c] = "InvalidToken"
         /\ rerr[c] = "nil"
         /\ gets[c] = 1 => out[c].UserToken # Observed(c)
         /\ res2[c] = "ok"

\* C1: in a refresh storm of N callers on one stale token, exactly one getToken
\* request is sent, every call returns success, and every retry carried the
\* same refreshed token (the one now stored).
C1_OneRefreshForStorm ==
    C1_Storm =>
        /\ Cardinality({c \in Callers : gets[c] = 1}) = 1
        /\ \A c \in Callers : gets[c] <= 1
        /\ token # Observed(1)
        /\ \A c \in Callers :
             /\ Len(sent[c]) = 2
             /\ sent[c][2] = token
             /\ ret[c] = "ok"

C1_Witness == C1_Storm /\ NumCallers >= 2

\* C2 as stated: a getToken request is never sent for an observed token value
\* for which one was sent before.
C2_AtMostOneCallPerStaleValue ==
    [][\A c \in Callers :
          (pc[c] = "lock" /\ pc'[c] = "waitToken") => tok[c] \notin requested]_vars

\* C2, amended: getToken exchanges are serialised and each is sent only while
\* the stored token still equals the token its caller observed (a caller whose
\* observed value was replaced sends none); a second request for the same
\* value follows only a failed one or the value being stored again.
C2_SerialisedAndOnlyForStoredToken ==
    [][\A c \in Callers :
          (pc[c] = "lock" /\ pc'[c] = "waitToken") =>
              /\ token = tok[c]
              /\ \A d \in Callers : pc[d] # "waitToken"]_vars

\* A second getToken request for a value whose first issuance failed.
C2_Witness ==
    \E c, d \in Callers :
        /\ c # d
        /\ pc[c] = "waitToken"
        /\ Done(d) /\ gets[d] = 1 /\ Observed(d) = tok[c]
        /\ rerr[d] \notin {"nil", "none"}

\* C3: the stored token is written (and listeners are started) only by the
\* caller that holds the mutex, is waiting for its getToken response, and
\* whose observed token still is the stored one; so between its comparison
\* and its write nobody else wrote.
C3_GuardedCompareAndSet ==
    /\ [](\A c \in Callers : pc[c] = "waitToken" => (tokenMutex = c /\ token = tok[c]))
    /\ [][(token' # token \/ spawned' # spawned) =>
            \E c \in Callers :
                /\ pc[c] = "waitToken" /\ pc'[c] = "unlock"
                /\ tokenMutex = c
                /\ token = tok[c]]_vars

C3_Witness ==
    \E c \in Callers :
        pc[c] = "getToken2" /\ gets[c] = 1 /\ token # Observed(c) /\ calls > 1

\* C4: with credentials, a refresh that finds the stored token different from
\* the observed one returns nil, sends no getToken request, leaves the token
\* alone and starts no listener.
C4_ShortCircuit ==
    [][\A c \in Callers :
          (pc[c] = "lock" /\ pc'[c] # "lock" /\ credentials /\ token # tok[c]) =>
              /\ rerr'[c] = "nil"
              /\ pc'[c] = "getToken2"
              /\ gets'[c] = gets[c]
              /\ requested' = requested
              /\ token' = token
              /\ spawned' = spawned
              /\ tokenMutex' = tokenMutex]_vars

C4_Witness ==
    \E c \in Callers :
        pc[c] = "getToken2" /\ gets[c] = 0 /\ rerr[c] = "nil" /\ token # Observed(c)

\* C5 as stated: no finished call returned InvalidToken, and a call whose first
\* exchange met InvalidToken ended in a successful retry, MissingCredentials,
\* BadCredentials or a transport/decode error.
C5_InvalidTokenNeverReturned ==
    \A c \in Callers :
        Done(c) =>
            /\ ret[c] # "InvalidToken"
            /\ res1[c] = "InvalidToken" =>
                   ret[c] \in {"ok", "MissingCredentials", "BadCredentials",
                               "TransportError", "DecodeError"}

\* C5, amended: the InvalidToken of the first exchange is never returned as
\* such.  A call that met it returns the error of its refresh (whatever the
\* getToken exchange produced, API and status errors and InvalidToken
\* included) without a second primary exchange, or, after a refresh that
\* returned nil, the result of its single retry, whatever it is; InvalidToken
\* is returned only as the result of the retry or of the getToken exchange.
C5_InvalidTokenOnlyFromRetryOrRefresh ==
    \A c \in Callers :
        Done(c) =>
            /\ res1[c] = "InvalidToken" =>
                 \/ rerr[c] \notin {"nil", "none"} /\ ret[c] = rerr[c] /\ Len(sent[c]) = 1
                 \/ rerr[c] = "nil" /\ ret[c] = res2[c] /\ Len(sent[c]) = 2
            /\ ret[c] = "InvalidToken" =>
                 /\ res1[c] = "InvalidToken"
                 /\ \/ rerr[c] = "nil" /\ res2[c] = "InvalidToken"
                    \/ rerr[c] = "InvalidToken" /\ gets[c] = 1

C5_Witness ==
    \E c \in Callers :
        Done(c) /\ ret[c] = "InvalidToken" /\ rerr[c] = "nil" /\ gets[c] = 1

\* C6: a call performs at most two exchanges with its primary endpoint and at
\* most one with getToken; a retry answered InvalidToken ends the call.
C6_BoundedExchanges ==
    \A c \in Callers :
        /\ Len(sent[c]) <= 2
        /\ gets[c] <= 1
        /\ res2[c] # "none" => Done(c)

C6_Witness ==
    \E c \in Callers :
        Done(c) /\ Len(sent[c]) = 2 /\ gets[c] = 1 /\ res2[c] = "InvalidToken"

\* C7: a first exchange that ends in anything but InvalidToken ends the call
\* with that result: no refresh, no getToken request, no second exchange.
C7_OnlyInvalidTokenIntercepted ==
    \A c \in Callers :
        res1[c] \notin {"none", "InvalidToken"} =>
            /\ Done(c)
            /\ ret[c] = res1[c]
            /\ rerr[c] = "none"
            /\ gets[c] = 0
            /\ out[c] = NoOutput
            /\ Len(sent[c]) = 1

C7_Witness ==
    /\ credentials
    /\ \E c, d \in Callers :
         /\ Done(c) /\ ret[c] = "MissingCredentials"
         /\ Done(d) /\ ret[d] = "TransportError"

\* C8: after InvalidToken for T and a refresh that stored T', the call makes
\* exactly one more primary exchange and returns its result; when no other
\* refresh stored a token since, that exchange carried T' and GetToken
\* returns T'.
C8_RetryOnceWithRefreshedToken ==
    \A c \in Callers :
        (Done(c) /\ res1[c] = "InvalidToken" /\ gets[c] = 1 /\ rerr[c] = "nil") =>
            /\ Len(sent[c]) = 2
            /\ ret[c] = res2[c]
            /\ Len(spawned) = tokenUpdateListeners =>
                   (sent[c][2] = out[c].UserToken /\ GetToken = out[c].UserToken)

C8_Witness ==
    \E c \in Callers :
        /\ Done(c) /\ res1[c] = "InvalidToken" /\ gets[c] = 1 /\ rerr[c] = "nil"
        /\ Len(spawned) = tokenUpdateListeners
        /\ out[c].UserToken # Observed(c)
        /\ ret[c] = "ok"

\* C9: without credentials nobody ever holds the mutex across a step, no
\* getToken request is sent and the token is never written; a call that met
\* InvalidToken returns MissingCredentials after its one exchange.
C9_NoCredentials ==
    ~credentials =>
        /\ tokenMutex = Free
        /\ requested = {}
        /\ token = 0
        /\ spawned = <<>>
        /\ \A c \in Callers :
             (res1[c] = "InvalidToken" /\ pc[c] # "refreshToken") =>
                 /\ Done(c)
                 /\ rerr[c] = "MissingCredentials"
                 /\ ret[c] = "MissingCredentials"
                 /\ gets[c] = 0
                 /\ Len(sent[c]) = 1

C9_Witness ==
    /\ ~credentials
    /\ \E c \in Callers :
         Done(c) /\ res1[c] = "InvalidToken" /\ ret[c] = "MissingCredentials"

\* C10: a getToken response whose Authenticated is not "True" makes the refresh
\* fail with BadCredentials, which the call returns without a retry; the step
\* that receives it leaves the token alone and starts no listener.
C10_BadCredentials ==
    /\ [](\A c \in Callers :
            (out[c] # NoOutput /\ out[c].Authenticated # "True") =>
                /\ Done(c)
                /\ rerr[c] = "BadCredentials"
                /\ ret[c] = "BadCredentials"
                /\ Len(sent[c]) = 1)
    /\ [][\A c \in Callers :
            (out'[c] # out[c] /\ out'[c].Authenticated \notin {"True", "none"}) =>
                (token' = token /\ spawned' = spawned /\ tokenMutex' = Free)]_vars

C10_Witness ==
    \E c \in Callers :
        /\ Done(c) /\ ret[c] = "BadCredentials"
        /\ out[c].Authenticated = "False" /\ out[c].UserToken # token
        /\ spawned = <<>>

\* The getToken exchange of c's current call failed in the Request Executor.
ExchangeFailed(c) == gres[c] \notin {"none", "ok"}

\* C11: when the getToken exchange fails (transport, decode or API error),
\* refreshToken returns that error, the stored token is unchanged, the lock is
\* released, and the call returns that error, not the first exchange's
\* InvalidToken, without a retry of the primary endpoint.
C11_RefreshFailurePropagates ==
    /\ [](\A c \in Callers :
            ExchangeFailed(c) =>
                /\ Done(c)
                /\ res1[c] = "InvalidToken"
                /\ rerr[c] = gres[c]
                /\ ret[c] = gres[c]
                /\ Len(sent[c]) = 1
                /\ res2[c] = "none")
    /\ [][\A c \in Callers :
            (~ExchangeFailed(c) /\ ExchangeFailed(c)') =>
                /\ pc[c] = "waitToken"
                /\ token' = token
                /\ stores' = stores
                /\ spawned' = spawned
                /\ tokenMutex = c /\ tokenMutex' = Free]_vars

C11_Witness ==
    \E c \in Callers :
        /\ Done(c)
        /\ gres[c] = "RailDataError"
        /\ ret[c] = "RailDataError"
        /\ \E d \in Callers : d # c /\ Done(d) /\ gres[d] \in {"TransportError", "DecodeError"}

ListenerCount(l) == Cardinality({i \in 1..Len(spawned) : spawned[i].listener = l})

\* C12: a refresh that stores a token starts one goroutine per registered
\* listener, with (the token just stored, the token the refresh was given); no
\* other step starts any; so every listener was started once per stored token.
C12_OneNotificationPerStore ==
    /\ [][IF stores' # stores
            THEN \E c \in Callers :
                   /\ pc[c] = "waitToken" /\ pc'[c] = "unlock"
                   /\ stores' = Append(stores, out'[c])
                   /\ token' = out'[c].UserToken
                   /\ Len(spawned') = Len(spawned) + tokenUpdateListeners
                   /\ \A l \in 1..tokenUpdateListeners :
                        spawned'[Len(spawned) + l] =
                            [listener |-> l, newToken |-> token', previousToken |-> tok[c]]
                   /\ \A i \in 1..Len(spawned) : spawned'[i] = spawned[i]
            ELSE spawned' = spawned]_vars
    /\ [](\A l \in 1..tokenUpdateListeners : ListenerCount(l) = Len(stores))

C12_Witness ==
    /\ Len(stores) = 1
    /\ Len(spawned) = tokenUpdateListeners
    /\ tokenUpdateListeners >= 1
    /\ \E c, d \in Callers :
         /\ gets[c] = 1 /\ rerr[c] = "nil" /\ spawned[1].previousToken = tok[d]
         /\ gets[d] = 0 /\ rerr[d] = "nil" /\ spawned[1].newToken = tok[c]

StoredValues == {0} \cup {stores[k].UserToken : k \in 1..Len(stores)}

HasRead(c) == pc[c] \notin {"idle", "getToken1"}

\* C14: reads and writes of the stored token exclude each other: GetToken
\* copies the token only while nobody holds the lock, the token is written only
\* by the holder, and every value GetToken returned is the token given at
\* construction or the UserToken of a stored response with Authenticated "True".
C14_NoTornToken ==
    /\ [](/\ \A k \in 1..Len(stores) : stores[k].Authenticated = "True"
          /\ token \in StoredValues
          /\ \A c \in Callers : HasRead(c) => tok[c] \in StoredValues)
    /\ [][\A c \in Callers :
            (pc[c] \in {"getToken1", "getToken2"} /\ pc'[c] # pc[c]) =>
                /\ tokenMutex = Free
                /\ tok'[c] = token
                /\ token' = token]_vars
    /\ [][token' # token => (tokenMutex # Free /\ pc[tokenMutex] = "waitToken")]_vars

C14_Witness ==
    \E c, d \in Callers :
        /\ pc[c] = "request2" /\ tok[c] = stores[Len(stores)].UserToken /\ tok[c] # 0
        /\ pc[d] = "request1" /\ tok[d] = tok[c]

\* C15: no step changes the credentials or the registered listeners, and the
\* stored token changes only in the step of a refresh that found the token
\* still equal to the one it was given, got a decoded getToken response with
\* Authenticated "True", and stored its UserToken; reads, returning calls,
\* failing refreshes and short-circuiting refreshes leave the token alone.
C15_TokenFrame ==
    [][/\ credentials' = credentials
       /\ tokenUpdateListeners' = tokenUpdateListeners
       /\ (token' # token \/ stores' # stores) =>
             \E c \in Callers :
                 /\ pc[c] = "waitToken" /\ pc'[c] = "unlock"
                 /\ token = tok[c]
                 /\ gres'[c] = "ok"
                 /\ out'[c].Authenticated = "True"
                 /\ token' = out'[c].UserToken
                 /\ stores' = Append(stores, out'[c])
       /\ \A c \in Callers :
             ((pc'[c] = "done" /\ pc[c] # "done")
                \/ (pc[c] = "lock" /\ pc'[c] = "getToken2")
                \/ (pc[c] \in {"getToken1", "getToken2"} /\ pc'[c] # pc[c]))
             => (token' = token /\ stores' = stores)]_vars

C15_Witness ==
    /\ Len(stores) = 1
    /\ token = stores[1].UserToken
    /\ token # 0
    /\ \E d \in Callers : Done(d) /\ rerr[d] = "BadCredentials"

\* GetToken, called by c at either place of request(), can return now.
GetTokenReturns(c) ==
    \/ pc[c] = "getToken1" /\ ENABLED ReadToken1(c)
    \/ pc[c] = "getToken2" /\ ENABLED ReadToken2(c)

InGetToken(c) == pc[c] \in {"getToken1", "getToken2"}

\* C16 as stated: a caller inside GetToken can always return at once, whatever
\* HTTP exchange is in flight.
C16_GetTokenNeverWaits ==
    \A c \in Callers : InGetToken(c) => GetTokenReturns(c)

\* C16: GetToken performs no HTTP exchange and waits for no primary exchange,
\* but it takes the token lock: it returns at once exactly when nobody holds
\* the lock, and while another caller's refresh holds it (from sending the
\* getToken request until that refresh returns) GetToken waits.
C16_GetTokenWaitsOnlyForRefresh ==
    /\ [](\A c \in Callers :
            InGetToken(c) =>
                /\ GetTokenReturns(c) <=> tokenMutex = Free
                /\ ~GetTokenReturns(c) =>
                     \E d \in Callers \ {c} :
                         tokenMutex = d /\ pc[d] \in {"waitToken", "unlock"}
                /\ (\A d \in Callers \ {c} : pc[d] \notin {"waitToken", "unlock"})
                     => GetTokenReturns(c))
    /\ [][\A c \in Callers :
            (InGetToken(c) /\ pc'[c] # pc[c]) =>
                /\ sent' = sent /\ gets' = gets /\ requested' = requested
                /\ tokenMutex' = tokenMutex]_vars

C16_Witness ==
    \E c, d \in Callers :
        /\ pc[c] = "getToken1"
        /\ pc[d] = "waitToken" /\ tokenMutex = d
        /\ ~GetTokenReturns(c)

\* C17 as stated: the lock is held across an exchange only inside
\* refreshToken, and a call by another caller that has not yet sent its request
\* while a getToken exchange is in flight can go on without waiting for it.
C17_OtherCallsNeverWait ==
    /\ tokenMutex # Free => pc[tokenMutex] \in {"waitToken", "unlock"}
    /\ \A c, d \in Callers :
         (c # d /\ pc[d] = "waitToken" /\ pc[c] \in {"getToken1", "request1"}) =>
             ENABLED (ReadToken1(c) \/ SendRequest1(c))

\* C17: the lock is held only by a caller inside refreshToken, from sending the
\* getToken request until refreshToken returns, never across a primary
\* exchange; refreshes wait for each other; a caller that has already read its
\* token sends and completes its primary exchange without waiting; a call that
\* has not yet read its token waits in GetToken until the refresh returns.
C17_LockOnlyAcrossGetToken ==
    /\ tokenMutex # Free => pc[tokenMutex] \in {"waitToken", "unlock"}
    /\ \A c \in Callers :
         /\ pc[c] \in {"waitToken", "unlock"} => tokenMutex = c
         /\ pc[c] = "request1" => ENABLED SendRequest1(c)
         /\ pc[c] = "request2" => ENABLED SendRequest2(c)
         /\ pc[c] = "wait1" => ENABLED RecvResponse1(c)
         /\ pc[c] = "wait2" => ENABLED RecvResponse2(c)
         /\ pc[c] = "lock" => (ENABLED RefreshLock(c) <=> tokenMutex = Free)
         /\ pc[c] = "getToken1" => (ENABLED ReadToken1(c) <=> tokenMutex = Free)

C17_Witness ==
    \E c, d \in Callers :
        /\ pc[d] = "waitToken" /\ tokenMutex = d
        /\ pc[c] = "request1" /\ ENABLED SendRequest1(c)

\* ParseResponse was applied to httpResponse.
Parsed == parsed # Unparsed
Success == httpResponse.status >= 200 /\ httpResponse.status < 300

\* The exchange was aborted while the body was being read (the context was
\* cancelled or its deadline passed, or the connection was lost).
Aborted(response) == response.body.kind = "unreadable"

\* C18 as stated, for an abort during the reading of the body: the error is not
\* InvalidToken, leads to no refresh, and is the error of no response that was
\* received whole.
C18_AbortDistinctFromApiFailure ==
    (Parsed /\ Aborted(httpResponse)) =>
        /\ parsed.err # "InvalidToken"
        /\ ~NeedsRefresh(parsed.err)
        /\ \A r \in Responses :
             ~Aborted(r) => [err |-> ParseResponse(r), text |-> ErrorText(r)] # parsed

\* C19: with a status in [200,300), an empty body gives MissingCredentials
\* (the decoder is not asked), a body that decodes into the method's response
\* type gives the output, and any other body gives a decode error that names
\* the method, never InvalidToken or MissingCredentials.
C19_SuccessStatus ==
    (Parsed /\ Success) =>
        LET body == httpResponse.body
            decodes ==
                \/ body.kind = "json"
                \/ /\ body.kind \in {"envelope", "envelopeExtra"}
                   /\ httpResponse.method \in {"isValidToken", "getToken"}
        IN /\ body.kind = "empty" =>
                  parsed.err = "MissingCredentials" /\ parsed.text.form = "MissingCredentials"
           /\ (body.kind \notin {"empty", "unreadable"} /\ decodes) => parsed.err = "ok"
           /\ (body.kind \notin {"empty", "unreadable"} /\ ~decodes) =>
                  /\ parsed.err = "DecodeError"
                  /\ parsed.text.form = "unmarshal"
                  /\ parsed.text.method = httpResponse.method
           /\ parsed.err \notin {"InvalidToken", "RailDataError", "StatusError"}

C19_Witness ==
    /\ Parsed
    /\ httpResponse.status = 204
    /\ httpResponse.body.kind = "empty"
    /\ parsed.err = "MissingCredentials"

\* C20: with a status outside [200,300), a body that parses as the error
\* envelope gives InvalidToken when its message is exactly "Invalid token." and
\* otherwise a RailDataError whose text is the message; a body that does not
\* parse gives an error carrying the method and the status; the result is
\* never MissingCredentials, an empty body included.
C20_ErrorStatus ==
    (Parsed /\ ~Success) =>
        LET body == httpResponse.body IN
           /\ (body.kind = "envelope" /\ body.errorMessage = "Invalid token.") =>
                  parsed.err = "InvalidToken"
           /\ (body.kind = "envelope" /\ body.errorMessage # "Invalid token.") =>
                  /\ parsed.err = "RailDataError"
                  /\ parsed.text.form = "message"
                  /\ parsed.text.message = body.errorMessage
           /\ body.kind \in {"empty", "garbage", "json", "envelopeExtra"} =>
                  /\ parsed.err = "StatusError"
                  /\ parsed.text.form = "status"
                  /\ parsed.text.status = httpResponse.status
                  /\ parsed.text.method = httpResponse.method
           /\ parsed.err \notin {"MissingCredentials", "ok", "DecodeError", "ReadError"}

C20_Witness ==
    /\ Parsed
    /\ httpResponse.status = 300
    /\ httpResponse.body = Body("envelope", "invalid token.")
    /\ parsed.err = "RailDataError"
    /\ parsed.text.message = "invalid token."

\* Every goroutine started for a listener has run.
AllNotified == ran = 1..Len(spawned)

\* C21 as stated: once every started notification has run, the token saved by
\* each listener is the client's current token, whatever the order in which
\* the notifications ran.
C21_SavedTokenIsCurrent ==
    (AllNotified /\ \A c \in Callers : pc[c] # "unlock") =>
        \A l \in 1..tokenUpdateListeners : saved[l] = token

\* The server's reply to a request that carries no usable token: the "Invalid
\* token." error, or a success status with an empty body.
AbsentTokenReplies == {"InvalidToken", "MissingCredentials"}

\* C22 as stated: with credentials, the first call of a client whose token is
\* the one given at construction (none) ends with a getToken request sent,
\* and with the issued token stored when the server issues one, for either
\* reply the server gives to the absent token.
C22_CreatesTokenByItself ==
    \A c \in Callers :
        (credentials /\ calls = 1 /\ Done(c) /\ res1[c] \in AbsentTokenReplies) =>
            /\ Observed(c) = 0
            /\ gets[c] = 1
            /\ (gres[c] = "ok" /\ out[c].Authenticated = "True") =>
                   (token = out[c].UserToken /\ Len(stores) = 1)

\* A call of Search or of SearchOrSynthesize returned.
Searched == result # NoResult /\ result[1].op = "Search"
Synthesized == result # NoResult /\ result[1].op = "SearchOrSynthesize"

\* C23: Search by code is case-insensitive and total: when the finder of the
\* Stations (or Lines) list was given a code that equals, ignoring case, the
\* code of an entry of the list, Search returns a pointer to that entry and
\* true.
C23_SearchByCode ==
    (Searched /\ finder.code # <<>>) =>
        \A i \in 1..Len(Impl(finder).list) :
            finder.code[1] \in CaseVariants(Impl(finder).list[i].Code) =>
                result[1].found /\ result[1].item = i

\* Search found Princeton Junction by the code "pJ" and the Raritan Valley
\* line by the code "rv".
C23_Witness ==
    /\ Searched
    /\ finder.name = <<>>
    /\ \/ /\ finder.new = "FindStation"
          /\ finder.code = <<<<"p","J">>>>
          /\ result[1].found
          /\ Stations[result[1].item].Code = <<"P","J">>
       \/ /\ finder.new = "FindLine"
          /\ finder.code = <<<<"r","v">>>>
          /\ result[1].found
          /\ Lines[result[1].item].Code = <<"R","V">>

\* The entries of the finder's list and the keys each is registered under.
List == Impl(finder).list
CodeHit ==
    finder.code # <<>> /\ \E i \in 1..Len(List) : ToLower(List[i].Code) = ToLower(finder.code[1])
AliasMap ==
    IF finder.new = "FindStation" THEN stationAliases
    ELSE IF finder.new = "FindLine" THEN lineAliases
    ELSE finder.aliases
AliasSet(i) ==
    {AliasesOf(AliasMap, List[i].Code)[j] : j \in 1..Len(AliasesOf(AliasMap, List[i].Code))}
NamesOf(i) == {ToLower(List[i].Name)} \cup {ToLower(a) : a \in AliasSet(i)}
AbbrsOf(i) ==
    IF finder.type = "Station" THEN {ToLower(List[i].ShortName)}
    ELSE {ToLower(List[i].Abbreviation)}
             \cup {ToLower(List[i].OtherAbbrs[j]) : j \in 1..Len(List[i].OtherAbbrs)}
ByName == \E i \in 1..Len(List) : ToLower(finder.name[1]) \in NamesOf(i)
ByAbbr == \E i \in 1..Len(List) : ToLower(finder.name[1]) \in AbbrsOf(i)

\* C24: without a code hit, Search tries the lower-cased name in the
\* name/alias table first and then in the abbreviation table, before any
\* fuzzy matching: a name equal, ignoring case, to the name or an alias of an
\* entry returns that entry, whatever the abbreviations and the fuzzy
\* candidates of the other entries are, and otherwise a name equal to the
\* abbreviation of an entry returns an entry with that abbreviation.
C24_ExactNameThenAbbreviation ==
    (Searched /\ finder.name # <<>> /\ ~CodeHit) =>
        /\ \A i \in 1..Len(List) :
               ToLower(finder.name[1]) \in NamesOf(i) =>
                   result[1].found /\ result[1].item = i
        /\ (~ByName /\ ByAbbr) =>
               /\ result[1].found
               /\ ToLower(finder.name[1]) \in AbbrsOf(result[1].item)

\* "ABC" is, ignoring case, the name of the second station and the short name
\* of the first, and Search returned the second.
C24_Witness ==
    /\ Searched
    /\ finder.new = "finderImpl"
    /\ finder.code = <<>>
    /\ Len(List) = 2
    /\ finder.name = <<<<"A","B","C">>>>
    /\ List[1].ShortName = <<"A","b","c">>
    /\ List[1].Name = <<"B","c","d">>
    /\ List[2].Name = <<"A","b","c">>
    /\ result[1].found
    /\ result[1].item = 2

\* s is a subsequence of t.
RECURSIVE IsSubsequence(_, _)
IsSubsequence(s, t) ==
    IF s = <<>> THEN TRUE
    ELSE IF t = <<>> THEN FALSE
    ELSE IF Head(s) = Head(t) THEN IsSubsequence(Tail(s), Tail(t))
    ELSE IsSubsequence(s, Tail(t))

\* The characters of s at the positions of the set ps, in order.
RECURSIVE Pick(_, _, _)
Pick(s, ps, i) ==
    IF i > Len(s) THEN <<>>
    ELSE IF i \in ps THEN <<s[i]>> \o Pick(s, ps, i + 1)
    ELSE Pick(s, ps, i + 1)

\* The greatest number of a set of numbers.
Greatest(ns) == CHOOSE n \in ns : \A k \in ns : k <= n

\* The length of the longest common subsequence of s and t, by definition.
LCS(s, t) ==
    Greatest({Cardinality(ps) : ps \in {qs \in SUBSET (1..Len(s)) :
                                           IsSubsequence(Pick(s, qs, 1), t)}})

\* The candidate strings of the entries of the finder's list, lower-cased,
\* each with its entry and with the length of its longest common subsequence
\* with the lower-cased name; and the greatest of these lengths.
Scores ==
    UNION {{[item |-> i, len |-> Len(c), lcs |-> LCS(c, ToLower(finder.name[1]))] :
               c \in {ToLower(List[i].Name), ToLower(List[i].ShortName)}} :
           i \in 1..Len(List)}
BestLCS == Greatest({s.lcs : s \in Scores})

\* Search got neither a code hit nor an exact name or abbreviation hit.
ExactMiss == finder.name # <<>> /\ ~CodeHit /\ ~ByName /\ ~ByAbbr

\* C25: when the exact lookups miss, Search returns an entry and true if and
\* only if L > 2 and L >= floor(len(name)/4), L being the longest common
\* subsequence a candidate has with the lower-cased name and len the length
\* of that name; otherwise it returns nil and false.
C25_FuzzyAcceptance ==
    (Searched /\ ExactMiss) =>
        /\ result[1].found <=>
               (BestLCS > 2 /\ BestLCS >= Len(ToLower(finder.name[1])) \div 4)
        /\ ~result[1].found => result[1].item = 0

\* A name of length 8 whose best candidate shares 3 characters with it was
\* found.
C25_Witness ==
    /\ Searched
    /\ ExactMiss
    /\ Len(finder.name[1]) = 8
    /\ BestLCS = 3
    /\ result[1].found
    /\ result[1].item # 0

\* A call of fuzzyFind returned.
FuzzyFound == result # NoResult /\ result[1].op = "fuzzyFind"

\* Of the candidates whose longest common subsequence with the name is the
\* longest, the shortest ones.
Winners(scores) == {w \in scores : \A v \in scores : v.lcs <= w.lcs}
Shortest(winners) == {w \in winners : \A v \in winners : w.len <= v.len}
First(shortest) == CHOOSE i \in {w.item : w \in shortest} : \A w \in shortest : i <= w.item

\* C26: fuzzyFind returns the longest common subsequence length any candidate
\* string has with the name, with the entry of a candidate that attains it:
\* of the candidates that attain it a shortest one, and of the shortest ones
\* that of the first entry of the list.  It returns nil and 0 when every
\* length is 0.
C26_FuzzyFindBest ==
    FuzzyFound =>
        \A scores \in {Scores} :
            \A winners \in {Winners(scores)} :
                /\ \A w \in winners : result[1].matchLen = w.lcs
                /\ (\A w \in winners : w.lcs = 0) => result[1].item = 0
                /\ (\E w \in winners : w.lcs > 0) =>
                       result[1].item = First(Shortest(winners))

\* Candidates of both stations share two characters with the name and have
\* the same length, and fuzzyFind returned the first station.
C26_Witness ==
    /\ FuzzyFound
    /\ Len(List) = 2
    /\ result[1].item = 1
    /\ result[1].matchLen = 2
    /\ {w.item : w \in Shortest(Winners(Scores))} = {1, 2}

\* The strings registered for the entries of the finder's list (names, short
\* names or abbreviations, aliases), each with its entry, that are within the
\* acceptance threshold of the name.
Near ==
    {w \in UNION {{[item |-> i, string |-> s] :
                      s \in NamesOf(i) \cup {ToLower(c) : c \in
                          {getCandidates(finder.type, List[i])[j] : j \in 1..2}}} :
                  i \in 1..Len(List)} :
        Accepts(fuzzyMatch(ToLower(finder.name[1]), w.string), ToLower(finder.name[1]))}

\* C27: the aliases of an entry are fuzzy-match candidates: when the exact
\* lookups miss and the name is within the acceptance threshold of an alias
\* of an entry and of no other string registered for any entry, Search
\* returns that entry.
C27_AliasesAreCandidates ==
    (Searched /\ ExactMiss) =>
        \A near \in {Near} :
            \A i \in 1..Len(List) :
                (\E w \in near : w.item = i /\ w.string \in {ToLower(a) : a \in AliasSet(i)}
                                      /\ \A v \in near : v.string = w.string)
                    => result[1].found /\ result[1].item = i

\* C28: SearchOrSynthesize always returns an entity, whatever the code and
\* the name are, empty ones included: the entry of the list Search found, and
\* when Search found none an entity whose Code is the code given, "XX" if
\* none was given, whose Name is the name given, "Unknown " followed by the
\* Code if none was given, and, for a station, whose ShortName is the first
\* min(14, len(Name)) characters of the Name.
C28_SearchOrSynthesize ==
    Synthesized =>
        /\ Len(result[1].entity) = 1
        /\ result[1].found => result[1].entity[1] = List[result[1].item]
        /\ ~result[1].found =>
               /\ result[1].entity[1].Code =
                      (IF finder.code # <<>> THEN finder.code[1] ELSE <<"X","X">>)
               /\ result[1].entity[1].Name =
                      (IF finder.name # <<>> THEN finder.name[1]
                       ELSE <<"U","n","k","n","o","w","n"," ">> \o result[1].entity[1].Code)
               /\ finder.type = "Station" =>
                      /\ Len(result[1].entity[1].ShortName)
                             = (IF Len(result[1].entity[1].Name) < 14
                                THEN Len(result[1].entity[1].Name) ELSE 14)
                      /\ \A k \in 1..Len(result[1].entity[1].ShortName) :
                             result[1].entity[1].ShortName[k] = result[1].entity[1].Name[k]

\* No station was found for a name of 15 characters, and the station made up
\* has the first 14 of them as its short name.
C28_Witness ==
    /\ Synthesized
    /\ finder.type = "Station"
    /\ ~result[1].found
    /\ finder.name # <<>>
    /\ Len(result[1].entity[1].Name) = 15
    /\ Len(result[1].entity[1].ShortName) = 14

\* C29: the line SearchOrSynthesize makes up when Search found none has the
\* Abbreviation "XX" followed by its Code, whatever the name is: "XXXY" for
\* the code "XY" and "XXXX" when no code was given.
C29_SynthesizedAbbreviation ==
    (Synthesized /\ finder.type = "Line" /\ ~result[1].found) =>
        /\ result[1].entity[1].Abbreviation = <<"X","X">> \o result[1].entity[1].Code
        /\ finder.code = <<<<"X","Y">>>> =>
               result[1].entity[1].Abbreviation = <<"X","X","X","Y">>
        /\ finder.code = <<>> => result[1].entity[1].Abbreviation = <<"X","X","X","X">>

\* No line was found for the code "XY" and the name "XXXX", and the line made
\* up has the abbreviation "XXXY".
C29_Witness ==
    /\ Synthesized
    /\ finder.type = "Line"
    /\ ~result[1].found
    /\ finder.code = <<<<"X","Y">>>>
    /\ finder.name = <<<<"X","X","X","X">>>>
    /\ result[1].entity[1].Abbreviation = <<"X","X","X","Y">>

\* The entries of a list have codes that differ even ignoring case, the code
\* index of its finder has one key for each entry, which maps to the entry
\* with that code, and no lower-cased name or alias belongs to two entries.
Unique(f, aliases) ==
    LET names == [i \in 1..Len(f.list) |->
                     {ToLower(f.list[i].Name)}
                         \cup {ToLower(AliasesOf(aliases, f.list[i].Code)[j]) :
                                  j \in 1..Len(AliasesOf(aliases, f.list[i].Code))}]
    IN /\ \A i, j \in 1..Len(f.list) :
              ToLower(f.list[i].Code) = ToLower(f.list[j].Code) => i = j
       /\ Cardinality(DOMAIN f.byCode) = Len(f.list)
       /\ \A i \in 1..Len(f.list) :
              /\ ToLower(f.list[i].Code) \in DOMAIN f.byCode
              /\ f.byCode[ToLower(f.list[i].Code)] = i
       /\ \A i, j \in 1..Len(f.list) : i # j => names[i] \cap names[j] = {}

StationsUnique == Unique(FindStation, stationAliases)
LinesUnique == Unique(FindLine, lineAliases)

\* C30: within Stations and within Lines no two entries have codes that are
\* equal ignoring case, so that the code index a finder searches has one key
\* for each entry, mapped to the entry with that code, and no lower-cased
\* name or alias is registered for two entries.
C30_CatalogUniqueness ==
    /\ finder.new = "FindStation" => StationsUnique
    /\ finder.new = "FindLine" => LinesUnique

\* A search of the stations by code and one of the lines by an alias found
\* their entries in indices with one key for each entry of the list.
C30_Witness ==
    /\ Searched
    /\ result[1].found
    /\ \/ /\ finder.new = "FindStation"
          /\ finder.code = <<<<"n","y">>>>
          /\ Stations[result[1].item].Code = <<"N","Y">>
          /\ Cardinality(DOMAIN stationsByCode) = Len(Stations)
       \/ /\ finder.new = "FindLine"
          /\ finder.code = <<>>
          /\ finder.name = <<<<"P","o","r","t"," ","J","e","r","v","i","s"," ","L","i","n","e">>>>
          /\ Lines[result[1].item].Code = <<"M","L">>
          /\ Cardinality(DOMAIN linesByCode) = Len(Lines)

\* C31: Color round trip.  For every string s of the form #rrggbb,
\* ParseHtmlColor(s).Html() is s in lower case (seven characters of which
\* only the first is "#"); for every s of the form #rgb it is "#rrggbb" with
\* each digit doubled; and RGB() returns the byte values of the three pairs
\* of digits.
WellFormed(s) == Len(s) \in {4, 7} /\ s[1] = "#" /\ \A i \in 2..Len(s) : IsHex(s[i])
Doubled(s) == IF Len(s) = 4 THEN <<s[1], s[2], s[2], s[3], s[3], s[4], s[4]>> ELSE s
C31_ColorRoundTrip ==
    WellFormed(colorSpec) =>
        /\ color # NoColor => color[1].err = "nil"
        /\ rendered.html # <<>> => rendered.html[1] = ToLower(Doubled(colorSpec))
        /\ rendered.rgb # <<>> =>
               \A i \in 1..3 : rendered.rgb[1][i] =
                   16 * fromHexChar(Doubled(colorSpec)[2 * i]) + fromHexChar(Doubled(colorSpec)[2 * i + 1])

\* C32: when the finder was given both a code and a name and the code is,
\* ignoring case, the code of an entry of the list, Search returns that entry
\* and true whatever the name is, even when the name is exactly the name of
\* another entry.
C32_CodeBeforeName ==
    (Searched /\ finder.code # <<>> /\ finder.name # <<>>) =>
        \A i \in 1..Len(List) :
            ToLower(List[i].Code) = ToLower(finder.code[1]) =>
                result[1].found /\ result[1].item = i

\* Search with the code "pj" and the name of the BWI airport station returned
\* Princeton Junction, and with the code "rv" and the name "Port Jervis Line"
\* the Raritan Valley line.
C32_Witness ==
    /\ Searched
    /\ finder.code # <<>>
    /\ finder.name # <<>>
    /\ ByName
    /\ result[1].found
    /\ ToLower(List[result[1].item].Code) = ToLower(finder.code[1])
    /\ ToLower(finder.name[1]) \notin NamesOf(result[1].item)

\* C33: when the finder was given a code that is, ignoring case, the code of
\* no entry of the list, Search without a name returns nil and false, and
\* Search with a name returns exactly what it returns for that name when no
\* code was given (the name/alias table, the abbreviation table, then the
\* fuzzy match).
C33_UnknownCode ==
    (Searched /\ finder.code # <<>> /\ ~CodeHit) =>
        /\ finder.name = <<>> => (~result[1].found /\ result[1].item = 0)
        /\ finder.name # <<>> =>
               \A r \in {Search(Impl(finder), <<>>, finder.name)} :
                   result[1].found = r.found /\ result[1].item = r.item

\* Search with the unknown code "XY" and a name that is no name, alias or
\* abbreviation of the list returned the entry of the fuzzy match.
C33_Witness ==
    /\ Searched
    /\ finder.code = <<<<"X","Y">>>>
    /\ ExactMiss
    /\ result[1].found
    /\ result[1].item # 0

\* C34: fuzzyMatch(input, candidate) is the length of the longest common
\* subsequence of the two strings, empty strings included; hence it has the
\* same value with its arguments exchanged, it is at most the length of the
\* shorter string, and it is the length of the input when the input is a
\* subsequence of the candidate.
C34_FuzzyMatchIsLCS ==
    matchResult # NoMatch =>
        LET input == matchArgs[1].input
            candidate == matchArgs[1].candidate
        IN /\ matchResult[1] = LCS(input, candidate)
           /\ matchResult[1] = fuzzyMatch(candidate, input)
           /\ matchResult[1] <= Min(Len(input), Len(candidate))
           /\ IsSubsequence(input, candidate) => matchResult[1] = Len(input)

\* fuzzyMatch("abca", "cab") returned 2.
C34_Witness ==
    /\ matchArgs = <<[input |-> <<"a","b","c","a">>, candidate |-> <<"c","a","b">>]>>
    /\ matchResult = <<2>>

\* C35: Search and SearchOrSynthesize never modify the list or the maps
\* byCode, byName and byAbbr of the catalog: a synthesized entity is not
\* added, so every later Search of the same finder value returns what the
\* earlier one returned (not-found for an unknown query); and WithCode and
\* WithName return a new finder value and leave the one they were called on
\* with the code and the name it had.
C35_Frame ==
    [][/\ catalog' = catalog
       /\ \A i \in 1..Len(finders) : finders'[i] = finders[i]
       /\ \A j \in 1..Len(result'), k \in 1..Len(result') :
              (j < k /\ result'[j].of = result'[k].of) =>
                  (result'[k].found = result'[j].found /\ result'[k].item = result'[j].item)]_vars

\* SearchOrSynthesize of the finder with the unknown name "qqq" made an
\* entity, and Search of the same finder then returned nil and false.
C35_Witness ==
    /\ Len(finders) = 3
    /\ finders[2] = [code |-> <<>>, name |-> <<<<"q","q","q">>>>]
    /\ finders[3] = [code |-> <<<<"z","z">>>>, name |-> <<<<"q","q","q">>>>]
    /\ Len(result) = 2
    /\ result[1].op = "SearchOrSynthesize"
    /\ result[1].of = 3
    /\ ~result[1].found
    /\ result[1].entity[1].Code = <<"z","z">>
    /\ result[2].op = "Search"
    /\ result[2].of = 3
    /\ ~result[2].found

\* C36: refreshToken releases the token lock on every path out of it and
\* never locks it again while holding it: the lock is held only by a caller
\* that is inside refreshToken past the Lock; hence, when every HTTP exchange
\* terminates, in every state in which a call is in progress some caller can
\* take a step, and every GetToken and every call of a public method
\* eventually returns.
InCall(c) == pc[c] \notin {"idle", "done"}
HoldsLock(c) == tokenMutex = c
C36_LockReleased ==
    /\ [](\A c \in Callers : HoldsLock(c) <=> pc[c] \in {"waitToken", "unlock"})
    /\ []((\E c \in Callers : InCall(c)) => \E c \in Callers : ENABLED Progress(c))
    /\ \A c \in Callers : (pc[c] = "getToken1") ~> (pc[c] = "request1")
    /\ \A c \in Callers : (pc[c] = "getToken2") ~> (pc[c] = "request2")
    /\ \A c \in Callers : InCall(c) ~> (pc[c] = "done")

\* A caller's refresh failed with BadCredentials and its call returned, and
\* the other caller then took the lock for its own refresh.
C36_Witness ==
    \E c \in Callers, d \in Callers :
        /\ c # d
        /\ pc[c] = "done"
        /\ rerr[c] = "BadCredentials"
        /\ HoldsLock(d)
        /\ pc[d] = "waitToken"

\* C37: a listener that calls GetToken of the client that notified it does
\* not deadlock the client: whenever a call is in progress or a listener has
\* not yet got its token some goroutine can take a step, every call returns
\* and every listener gets a token.  The token a listener gets is the
\* newToken of the refresh that notified it or the token stored by a later
\* refresh; it is the previousToken of its notification only if one of these
\* refreshes was issued that same value.
StoreOf(i) == ((i - 1) \div tokenUpdateListeners) + 1
Pending(i) == i \in 1..Len(spawned) /\ i \notin ran
C37_ReentrantListener ==
    /\ [](\A g \in got :
            /\ spawned[g.goroutine].newToken = stores[StoreOf(g.goroutine)].UserToken
            /\ \E j \in StoreOf(g.goroutine)..Len(stores) : g.token = stores[j].UserToken)
    /\ [](((\E c \in Callers : InCall(c)) \/ (\E i \in 1..Len(spawned) : Pending(i)))
             => ((\E c \in Callers : ENABLED Progress(c))
                    \/ (\E i \in 1..Len(spawned) : ENABLED ListenerGetToken(i))))
    /\ \A c \in Callers : InCall(c) ~> (pc[c] = "done")
    /\ \A i \in 1..(MaxCalls * NumListeners) :
           Pending(i) ~> (\E g \in got : g.goroutine = i)

\* A listener notified with the new token 1 and the previous token 0 waited
\* for the refresh to return, and got the token 1.
C37_Witness ==
    \E g \in got :
        /\ spawned[g.goroutine].newToken = 1
        /\ spawned[g.goroutine].previousToken = 0
        /\ g.token = 1
        /\ Len(stores) = 1

\* C38: for a response with a status outside [200,300) whose body is a JSON
\* object with errorMessage "Invalid token." and another field, ParseResponse
\* returns the error made of the method name and the status line, not
\* InvalidToken, and request() does not go on to refresh the token and retry.
C38_InvalidTokenWithOtherField ==
    (/\ parsed # Unparsed
     /\ httpResponse.status < 200 \/ httpResponse.status >= 300
     /\ httpResponse.body = Body("envelopeExtra", InvalidTokenMessage)) =>
        /\ parsed.err = "StatusError"
        /\ parsed.text.form = "status"
        /\ parsed.text.method = httpResponse.method
        /\ parsed.text.status = httpResponse.status
        /\ ~NeedsRefresh(parsed.err)

\* ParseResponse returned the status error for a 401 response to
\* getStationList with such a body.
C38_Witness ==
    /\ parsed # Unparsed
    /\ httpResponse = [method |-> "getStationList", status |-> 401,
                       body |-> Body("envelopeExtra", InvalidTokenMessage)]
    /\ parsed.err = "StatusError"

\* C39: in the map of short names (of abbreviations, for lines) a lower-cased
\* string registered by several entries of the list maps to the last of
\* them; hence Search with a name that misses the codes and the name/alias
\* map and is such a string returns that last entry, and Search of the
\* stations with the name "" returns a station of the list, one with an empty
\* short name, and not nil and false.
LastWith(abbr) == Greatest({i \in 1..Len(List) : abbr \in AbbrsOf(i)})
C39_LastEntryWins ==
    /\ (finder.new # "none" /\ finder.code = <<>> /\ finder.name = <<>> /\ result = NoResult) =>
           \A i \in 1..Len(List) : \A abbr \in AbbrsOf(i) :
               Impl(finder).byAbbr[abbr] = LastWith(abbr)
    /\ (Searched /\ finder.name # <<>> /\ ~CodeHit /\ ~ByName /\ ByAbbr) =>
           /\ result[1].found
           /\ result[1].item = LastWith(ToLower(finder.name[1]))
    /\ (Searched /\ finder.new = "FindStation" /\ finder.name = <<<<>>>> /\ ~CodeHit) =>
           /\ result[1].found
           /\ List[result[1].item].ShortName = <<>>

\* Search of the stations with the name "Secaucus" returned SE, the second of
\* the two stations with that short name.
C39_Witness ==
    /\ Searched
    /\ finder.new = "FindStation"
    /\ finder.code = <<>>
    /\ finder.name = <<<<"S","e","c","a","u","c","u","s">>>>
    /\ result[1].found
    /\ Stations[result[1].item].Code = <<"S","E">>
    /\ \E j \in 1..(result[1].item - 1) : Stations[j].ShortName = Stations[result[1].item].ShortName

====
